---- MODULE Spec2Model ----
(***************************************************************************)
(* Model of the prompt-analysis gateway: the audit drain cycle of          *)
(* RedisCache, the audit Logger with its workers, the two Analyze          *)
(* implementations of package analyzer, and the policy caches.             *)
(*                                                                         *)
(* Each subsystem has its own specification (SpecDrain, SpecLogger, ...)   *)
(* over the one set of variables; a subsystem's actions leave the other    *)
(* subsystems' variables unchanged.                                        *)
(***************************************************************************)
EXTENDS Integers, Sequences, FiniteSets, TLC

(***************************************************************************)
(* Bounds of the model.                                                    *)
(***************************************************************************)
\* audit records minted by producers over one behaviour
MaxRecords == 3
\* unparseable payloads left-pushed onto the shared queue over one behaviour
MaxJunk == 1
\* RPopCount's count; redis_cache.go:230 sets batchSize := 10000, scaled down
batchSize == 2
\* capacity of Logger.logChannel (Config.BufferSize), scaled down
BufferSize == 2
\* audit workers started by startWorkers (Config.Workers), scaled down
NumWorkers == 2

(***************************************************************************)
(* Helpers.                                                                *)
(***************************************************************************)
Min(a, b) == IF a < b THEN a ELSE b

Range(s) == {s[i] : i \in 1..Len(s)}

\* the subsequence of s at the indices in S, in increasing index order
RECURSIVE SubAt(_, _, _)
SubAt(s, S, i) ==
    IF i > Len(s) THEN <<>>
    ELSE (IF i \in S THEN <<s[i]>> ELSE <<>>) \o SubAt(s, S, i + 1)

VARIABLES
    queue,      \* Redis list audit_logs:pending; index 1 is the left (head) end
    auditRows,  \* table audit_logs: request id |-> number of rows holding it
    nextRec,    \* audit records minted so far
    junkCount,  \* unparseable payloads pushed so far
    lastSync    \* what the last drain cycle popped, parsed, inserted and re-pushed

VARIABLES
    logChannel, \* Logger.logChannel: the buffered channel, oldest entry first
    stopCh,     \* Logger.stopCh is closed
    wpc,        \* where each audit worker stands in Logger.worker
    wentry,     \* the entry a worker received and is writing (0: none)
    closePc,    \* Logger.Close: "idle", "waiting" (in wg.Wait) or "returned"
    saturated,  \* records whose Log call found the buffer full and has returned
    dequeued,   \* records a worker received from the buffer and is done with
    atStop      \* the records logged and the records in the buffer when Close closed stopCh

VARIABLES
    swpc,       \* where RedisCache.syncWorker stands
    stopChan,   \* RedisCache.stopChan is closed
    mainPc      \* where main stands on its way out

VARIABLES
    impl,         \* which Analyze runs: "all" (analyzer.go), "first" (part_010), "none"
    content,      \* Analyze's content argument
    policies,     \* Analyze's policies argument
    launched,     \* the policies a matcher goroutine was launched for
    tpc,          \* where each matcher goroutine stands
    tres,         \* what checkPolicyMatch returned to each matcher goroutine
    resultCh,     \* the buffered result channel, oldest first
    chClosed,     \* close(resultCh) has run (part_010)
    cancelled,    \* cancel() of the derived context has run (part_010)
    parentDone,   \* the caller's context is cancelled or past its deadline
    received,     \* results the collecting loop has received
    matches,      \* the collecting loop's matches
    ret,          \* what Analyze returned
    patternCache, \* Analyzer.patternCache: the patterns with a compiled entry
    resp          \* what HandleAnalyze answered the request with

VARIABLES
    rdpc,         \* how often RedactContent has been applied to its input
    rdIn,         \* the content, matches and policies RedactContent was called with
    rdOut,        \* what RedactContent returned
    rdAgain       \* what RedactContent returned for what it had returned

VARIABLES
    cacheKind,     \* the cache the process constructed: "PolicyCache", "RedisCache", "none"
    cached,        \* the cache's in-memory policies slice
    cachedWhole,   \* the slice is as a load installed it (no append since)
    readers,       \* the Get calls holding the read lock
    dbRows,        \* the policies table, oldest row first
    nextID,        \* ids handed out so far
    redisSet,      \* the id set in the key-value store
    redisKeys,     \* the ids whose policy key is live in the key-value store
    pendingWrites, \* RedisCache.pendingWrites
    rpc,           \* where each refresh stands
    rlist,         \* the list each refresh has loaded
    gpc,           \* where each Get stands
    glen,          \* the length each Get made its result with
    gresult,       \* each Get's result
    gseen,         \* the values the slice had while each Get ran
    gcaller,       \* the sequence each Get returned, as its caller has it now
    gshared,       \* each Get's result has the cache's backing array for its own
    expiries,      \* policy keys that have reached their time to live so far
    rlast,         \* how each refresher's last PolicyCache.refresh ended
    hcp,           \* the last create request and the status it was answered with
    announced,     \* the policies answered "created" after an Invalidate that succeeded
    loops,         \* the refreshWorker goroutines PolicyCache.Start has launched
    rmissing,      \* the ids each refreshFromRedis met in the id set and could not read
    pcStop,        \* PolicyCache.stopChan is closed
    rwDone,        \* PolicyCache.refreshWorker has returned
    lateTick,      \* the refresh worker took its last tick after Stop was called
    cpc,           \* where each caller of getCompiledPattern stands
    cpat,          \* the pattern each caller of getCompiledPattern was given
    writes         \* the writes to patternCache so far, for each pattern

auditVars == <<queue, auditRows, nextRec>>

cacheVars == <<cacheKind, cached, cachedWhole, readers, dbRows, nextID, redisSet, redisKeys,
               pendingWrites, rpc, rlist, gpc, glen, gresult, gseen, gcaller, gshared, expiries, rlast,
               hcp, announced, loops, rmissing, pcStop, rwDone, lateTick>>

pcStopVars == <<pcStop, rwDone, lateTick>>

analyzeVars == <<impl, content, policies, launched, tpc, tres, resultCh, chClosed,
                 cancelled, parentDone, received, matches, ret, patternCache, resp>>

redactVars == <<rdpc, rdIn, rdOut, rdAgain>>

compileVars == <<cpc, cpat, writes>>

syncVars == <<swpc, stopChan, mainPc>>

nonAuditVars == <<analyzeVars, cacheVars, redactVars, syncVars, compileVars>>

nonAnalyzeVars == <<queue, auditRows, nextRec, junkCount, lastSync, logChannel, stopCh,
                    wpc, wentry, closePc, saturated, dequeued, atStop, cacheVars, redactVars, syncVars, compileVars>>

nonCacheVars == <<queue, auditRows, nextRec, junkCount, lastSync, logChannel, stopCh,
                  wpc, wentry, closePc, saturated, dequeued, atStop, analyzeVars, redactVars, syncVars, compileVars>>

drainVars == <<junkCount, lastSync>>

loggerVars == <<logChannel, stopCh, wpc, wentry, closePc, saturated, dequeued, atStop>>

vars == <<auditVars, drainVars, loggerVars, analyzeVars, cacheVars, redactVars, syncVars, compileVars>>

Records == 1..MaxRecords

(***************************************************************************)
(* Serialized audit records.  A payload is either the JSON of a record or  *)
(* a string json.Unmarshal rejects.                                        *)
(***************************************************************************)
JunkPayload == [json |-> FALSE, rec |-> 0]

Marshal(rec) == [json |-> TRUE, rec |-> rec]

Unmarshal(payload) ==
    IF payload.json THEN [err |-> FALSE, entry |-> payload.rec]
    ELSE [err |-> TRUE, entry |-> 0]

(***************************************************************************)
(* Redis list operations on audit_logs:pending.                            *)
(***************************************************************************)
LPush(q, payload) == <<payload>> \o q

\* a pop of the newest elements, from the left end
RPopCount_Newest(q, count) ==
    LET n == Min(count, Len(q))
    IN  [logs |-> SubSeq(q, 1, n), rest |-> SubSeq(q, n + 1, Len(q))]

\* RPOP key count: up to count elements from the right end, the rightmost first
RPopCount(q, count) ==
    LET n == Min(count, Len(q))
    IN  [logs |-> [i \in 1..n |-> q[Len(q) - i + 1]],
         rest |-> SubSeq(q, 1, Len(q) - n)]

(***************************************************************************)
(* RedisCache.syncAuditLogsToPostgres and its helpers.                     *)
(***************************************************************************)
\* the parse loop: entries in pop order, bad JSON skipped
RECURSIVE ParseAll(_)
ParseAll(logs) ==
    IF logs = <<>> THEN <<>>
    ELSE LET u == Unmarshal(Head(logs))
         IN  (IF u.err THEN <<>> ELSE <<u.entry>>) \o ParseAll(Tail(logs))

\* INSERT of one row per entry of the sequence
RECURSIVE InsertAll(_, _)
InsertAll(rows, entries) ==
    IF entries = <<>> THEN rows
    ELSE InsertAll([rows EXCEPT ![Head(entries)] = @ + 1], Tail(entries))

\* a bulk write whose rows stay in the table when it returns an error
bulkWriteAuditLogs_NoRollback(rows, entries, bulkErr) == InsertAll(rows, entries)

\* bulkWriteAuditLogs: COPY of all entries in one transaction; the deferred
\* Rollback undoes every row when any step returns an error
bulkWriteAuditLogs(rows, entries, bulkErr) ==
    IF bulkErr THEN rows ELSE InsertAll(rows, entries)

\* the fallback loop collects logs[i] for each index i of entries whose
\* individual insert failed
FailedLogs(logs, entries, fails) ==
    SubAt(logs, fails \cap (1..Len(entries)), 1)

\* the re-push loop: LPush of each failed log; a failed LPush is only logged
RECURSIVE RePush(_, _, _, _)
RePush(q, failedLogs, pushFails, k) ==
    IF k > Len(failedLogs) THEN q
    ELSE RePush(IF k \in pushFails THEN q ELSE LPush(q, failedLogs[k]),
                failedLogs, pushFails, k + 1)

NoSync ==
    [ran |-> FALSE, logs |-> <<>>, entries |-> <<>>, bulkErr |-> FALSE,
     fails |-> {}, pushFails |-> {}, failedLogs |-> <<>>, pushed |-> <<>>]

\* main has closed the clients of the key-value store and of the database
StoresClosed == mainPc \in {"closed", "exited"}

\* one drain cycle; RPopCount on a closed client returns an error
DrainCycle ==
    /\ \E popErr \in (IF StoresClosed THEN {TRUE} ELSE BOOLEAN) :
        IF popErr \/ Len(queue) = 0
        THEN \* redis.Nil, an empty result or a read error: nothing is popped
             /\ UNCHANGED <<queue, auditRows>>
             /\ lastSync' = NoSync
        ELSE LET popped  == RPopCount(queue, batchSize)
                 logs    == popped.logs
                 entries == ParseAll(logs)
             IN  IF Len(entries) = 0
                 THEN /\ queue' = popped.rest
                      /\ UNCHANGED auditRows
                      /\ lastSync' = [NoSync EXCEPT !.ran = TRUE, !.logs = logs]
                 ELSE \E bulkErr \in BOOLEAN :
                      \E fails \in SUBSET (1..Len(entries)) :
                      \E pushFails \in SUBSET (1..Cardinality(fails)) :
                        /\ bulkErr \/ (fails = {} /\ pushFails = {})
                        /\ LET failedLogs == FailedLogs(logs, entries, fails)
                               okEntries  == SubAt(entries, (1..Len(entries)) \ fails, 1)
                           IN  /\ auditRows' =
                                     IF bulkErr
                                     THEN InsertAll(bulkWriteAuditLogs(auditRows, entries, TRUE),
                                                    okEntries)
                                     ELSE bulkWriteAuditLogs(auditRows, entries, FALSE)
                               /\ queue' =
                                     IF bulkErr
                                     THEN RePush(popped.rest, failedLogs, pushFails, 1)
                                     ELSE popped.rest
                               /\ lastSync' =
                                     [ran |-> TRUE, logs |-> logs, entries |-> entries,
                                      bulkErr |-> bulkErr, fails |-> fails,
                                      pushFails |-> pushFails, failedLogs |-> failedLogs,
                                      pushed |-> IF bulkErr
                                                 THEN SubAt(failedLogs,
                                                        (1..Len(failedLogs)) \ pushFails, 1)
                                                 ELSE <<>>]

syncAuditLogsToPostgres ==
    /\ DrainCycle
    /\ UNCHANGED nonAuditVars
    /\ UNCHANGED <<nextRec, junkCount, loggerVars>>

(***************************************************************************)
(* Producers of the shared queue: an audit worker left-pushes the JSON of  *)
(* a new record; any other client of the key-value store may leave a       *)
(* payload that is not JSON.                                               *)
(***************************************************************************)
QueuePushRecord ==
    /\ nextRec < MaxRecords
    /\ nextRec' = nextRec + 1
    /\ queue' = LPush(queue, Marshal(nextRec + 1))
    /\ UNCHANGED nonAuditVars
    /\ UNCHANGED <<auditRows, junkCount, lastSync, loggerVars>>

QueuePushJunk ==
    /\ junkCount < MaxJunk
    /\ junkCount' = junkCount + 1
    /\ queue' = LPush(queue, JunkPayload)
    /\ UNCHANGED nonAuditVars
    /\ UNCHANGED <<auditRows, nextRec, lastSync, loggerVars>>

(***************************************************************************)
(* The sync worker of the drainer and main's way out (part_000): after     *)
(* server.Shutdown main returns, and its deferred calls run last deferred  *)
(* first: auditLogger.Close, redisCache.Stop, policyCache.Stop, rdb.Close, *)
(* db.Close; then the process exits and its goroutines with it.            *)
(***************************************************************************)
\* RedisCache.Start: syncOnce.Do(go rc.syncWorker(ctx))
SyncWorkerStart ==
    /\ swpc = "none"
    /\ mainPc = "running"
    /\ swpc' = "select"
    /\ UNCHANGED <<stopChan, mainPc>>
    /\ UNCHANGED <<auditVars, drainVars, loggerVars, analyzeVars, cacheVars, redactVars, compileVars>>

\* syncWorker, case <-rc.syncTicker.C: no policy write is pending, and the
\* audit drain cycle runs
SyncWorkerTick ==
    /\ swpc = "select"
    /\ mainPc # "exited"
    /\ syncAuditLogsToPostgres

\* syncWorker, case <-rc.stopChan: taken, syncToPostgres finds no pending write
SyncWorkerStopCase ==
    /\ swpc = "select"
    /\ stopChan
    /\ mainPc # "exited"
    /\ swpc' = "final"
    /\ UNCHANGED <<stopChan, mainPc>>
    /\ UNCHANGED <<auditVars, drainVars, loggerVars, analyzeVars, cacheVars, redactVars, compileVars>>

\* syncWorker, case <-rc.stopChan: the final drain cycle, syncTicker.Stop, return
SyncWorkerFinal ==
    /\ swpc = "final"
    /\ mainPc # "exited"
    /\ DrainCycle
    /\ swpc' = "stopped"
    /\ UNCHANGED <<stopChan, mainPc>>
    /\ UNCHANGED <<nextRec, junkCount, loggerVars, analyzeVars, cacheVars, redactVars, compileVars>>

\* RedisCache.Stop, run by main's defer: close(rc.stopChan), and nothing more
Stop ==
    /\ mainPc = "running"
    /\ swpc # "none"
    /\ stopChan' = TRUE
    /\ mainPc' = "stopped"
    /\ UNCHANGED swpc
    /\ UNCHANGED <<auditVars, drainVars, loggerVars, analyzeVars, cacheVars, redactVars, compileVars>>

\* main's defers rdb.Close() and db.Close()
MainCloseStores ==
    /\ mainPc = "stopped"
    /\ mainPc' = "closed"
    /\ UNCHANGED <<swpc, stopChan>>
    /\ UNCHANGED <<auditVars, drainVars, loggerVars, analyzeVars, cacheVars, redactVars, compileVars>>

\* main returns
MainExit ==
    /\ mainPc = "closed"
    /\ mainPc' = "exited"
    /\ UNCHANGED <<swpc, stopChan>>
    /\ UNCHANGED <<auditVars, drainVars, loggerVars, analyzeVars, cacheVars, redactVars, compileVars>>

(***************************************************************************)
(* package audit: Logger (src/internal/audit/logger.go).                   *)
(***************************************************************************)
Workers == 1..NumWorkers

\* Logger.writeToDatabase: one INSERT INTO audit_logs; nothing is written when
\* ExecContext returns an error
writeToDatabase(rows, entry, dbErr) ==
    IF dbErr THEN rows ELSE [rows EXCEPT ![entry] = @ + 1]

\* a send on logChannel that is never ready
SendReady_Never(ch) == FALSE

\* the send case of Log's select is ready when the buffer has room
SendReady(ch) == Len(ch) < BufferSize

\* a Log that sends on the channel whatever the buffer holds
Log_Unbounded ==
    /\ nextRec < MaxRecords
    /\ nextRec' = nextRec + 1
    /\ logChannel' = Append(logChannel, nextRec + 1)
    /\ UNCHANGED <<auditRows, saturated>>
    /\ UNCHANGED nonAuditVars
    /\ UNCHANGED <<queue, drainVars, stopCh, wpc, wentry, closePc, dequeued, atStop>>

\* HandleAnalyze builds the audit entry and calls Logger.Log, whose result it
\* ignores.  Log: a non-blocking send on logChannel; when the channel is full,
\* writeToDatabase on the caller's thread.
Log ==
    /\ nextRec < MaxRecords
    /\ nextRec' = nextRec + 1
    /\ LET entry == nextRec + 1
       IN  IF SendReady(logChannel)
           THEN /\ logChannel' = Append(logChannel, entry)
                /\ UNCHANGED <<auditRows, saturated>>
           ELSE \E dbErr \in BOOLEAN :
                /\ auditRows' = writeToDatabase(auditRows, entry, dbErr)
                /\ saturated' = saturated \cup {entry}
                /\ UNCHANGED logChannel
    /\ UNCHANGED nonAuditVars
    /\ UNCHANGED <<queue, drainVars, stopCh, wpc, wentry, closePc, dequeued, atStop>>

\* worker, outer select: case entry := <-l.logChannel
WorkerReceive(w) ==
    /\ wpc[w] = "select"
    /\ logChannel # <<>>
    /\ wentry' = [wentry EXCEPT ![w] = Head(logChannel)]
    /\ logChannel' = Tail(logChannel)
    /\ wpc' = [wpc EXCEPT ![w] = "write"]
    /\ UNCHANGED nonAuditVars
    /\ UNCHANGED <<auditVars, drainVars, stopCh, closePc, saturated, dequeued, atStop>>

\* worker, outer select: case <-l.stopCh
WorkerStop(w) ==
    /\ wpc[w] = "select"
    /\ stopCh
    /\ wpc' = [wpc EXCEPT ![w] = "drain"]
    /\ UNCHANGED nonAuditVars
    /\ UNCHANGED <<auditVars, drainVars, logChannel, stopCh, wentry, closePc,
                   saturated, dequeued, atStop>>

\* worker, drain loop: case entry := <-l.logChannel
WorkerDrainReceive(w) ==
    /\ wpc[w] = "drain"
    /\ logChannel # <<>>
    /\ wentry' = [wentry EXCEPT ![w] = Head(logChannel)]
    /\ logChannel' = Tail(logChannel)
    /\ wpc' = [wpc EXCEPT ![w] = "drainwrite"]
    /\ UNCHANGED nonAuditVars
    /\ UNCHANGED <<auditVars, drainVars, stopCh, closePc, saturated, dequeued, atStop>>

\* worker: writeToDatabase(entry); an error is printed and the entry is gone
WorkerWrite(w) ==
    /\ wpc[w] \in {"write", "drainwrite"}
    /\ \E dbErr \in BOOLEAN :
        auditRows' = writeToDatabase(auditRows, wentry[w], dbErr)
    /\ dequeued' = dequeued \cup {wentry[w]}
    /\ wentry' = [wentry EXCEPT ![w] = 0]
    /\ wpc' = [wpc EXCEPT ![w] = IF wpc[w] = "write" THEN "select" ELSE "drain"]
    /\ UNCHANGED nonAuditVars
    /\ UNCHANGED <<queue, nextRec, drainVars, logChannel, stopCh, closePc, saturated, atStop>>

\* a select takes its default case when no other case is ready
DefaultReady_Always(ch) == TRUE

DefaultReady(ch) == ch = <<>>

\* worker, drain loop: default: return (the deferred wg.Done)
WorkerExit(w) ==
    /\ wpc[w] = "drain"
    /\ DefaultReady(logChannel)
    /\ wpc' = [wpc EXCEPT ![w] = "stopped"]
    /\ UNCHANGED nonAuditVars
    /\ UNCHANGED <<auditVars, drainVars, logChannel, stopCh, wentry, closePc,
                   saturated, dequeued, atStop>>

\* Logger.Close: close(l.stopCh), then wg.Wait()
Close ==
    /\ closePc = "idle"
    /\ stopCh' = TRUE
    /\ closePc' = "waiting"
    /\ atStop' = [rec |-> nextRec, buf |-> Range(logChannel)]
    /\ UNCHANGED nonAuditVars
    /\ UNCHANGED <<auditVars, drainVars, logChannel, wpc, wentry, saturated, dequeued>>

CloseReturn ==
    /\ closePc = "waiting"
    /\ \A w \in Workers : wpc[w] = "stopped"
    /\ closePc' = "returned"
    /\ UNCHANGED nonAuditVars
    /\ UNCHANGED <<auditVars, drainVars, logChannel, stopCh, wpc, wentry,
                   saturated, dequeued, atStop>>

(***************************************************************************)
(* The analyzer.  Strings are sequences of one-character strings.  The     *)
(* policies of a call are drawn from PolicyPool; the contents from         *)
(* Contents.                                                               *)
(***************************************************************************)
MaxPolicies == 3

Str_dan == <<"d", "a", "n">>

Str_ok == <<"o", "k">>

Contents == {Str_dan, Str_ok}

PolicyPool ==
    << [ID |-> 1, Name |-> "p1", PatternType |-> "keyword", PatternValue |-> <<"D", "A", "N">>,
        Severity |-> "high", Action |-> "block", Enabled |-> TRUE],
       [ID |-> 2, Name |-> "p2", PatternType |-> "regex", PatternValue |-> <<"a", "n">>,
        Severity |-> "medium", Action |-> "redact", Enabled |-> TRUE],
       [ID |-> 3, Name |-> "p3", PatternType |-> "regex", PatternValue |-> <<"d">>,
        Severity |-> "low", Action |-> "log", Enabled |-> TRUE],
       [ID |-> 4, Name |-> "p4", PatternType |-> "keyword", PatternValue |-> <<"z", "z">>,
        Severity |-> "low", Action |-> "log", Enabled |-> TRUE],
       [ID |-> 5, Name |-> "p5", PatternType |-> "regex", PatternValue |-> <<"[">>,
        Severity |-> "high", Action |-> "block", Enabled |-> TRUE],
       [ID |-> 6, Name |-> "p6", PatternType |-> "fuzzy", PatternValue |-> <<"d">>,
        Severity |-> "high", Action |-> "block", Enabled |-> TRUE],
       [ID |-> 7, Name |-> "p7", PatternType |-> "keyword", PatternValue |-> <<"d", "a", "n">>,
        Severity |-> "critical", Action |-> "block", Enabled |-> FALSE],
       [ID |-> 8, Name |-> "p8", PatternType |-> "fuzzy", PatternValue |-> <<"d">>,
        Severity |-> "high", Action |-> "block", Enabled |-> FALSE],
       [ID |-> 9, Name |-> "p9", PatternType |-> "model", PatternValue |-> <<"m">>,
        Severity |-> "high", Action |-> "block", Enabled |-> TRUE] >>

\* the lists a caller may pass: up to MaxPolicies policies of the pool
PolicyLists ==
    {SubAt(PolicyPool, S, 1) :
        S \in {T \in SUBSET (1..Len(PolicyPool)) : Cardinality(T) <= MaxPolicies}}

\* strings.ToLower, on the letters the pool and the contents use
ToLower(s) ==
    [i \in 1..Len(s) |->
        CASE s[i] = "D" -> "d"
          [] s[i] = "A" -> "a"
          [] s[i] = "N" -> "n"
          [] s[i] = "R" -> "r"
          [] s[i] = "E" -> "e"
          [] s[i] = "C" -> "c"
          [] s[i] = "T" -> "t"
          [] OTHER -> s[i]]

\* strings.Contains
Contains(s, substr) ==
    \E i \in 0..(Len(s) - Len(substr)) : SubSeq(s, i + 1, i + Len(substr)) = substr

\* regexp.Compile on the patterns of the pool: a run of literal characters
\* compiles to itself, a character class that is never closed does not compile
Compile(pattern) ==
    IF "[" \in Range(pattern) /\ ~("]" \in Range(pattern))
    THEN [err |-> "invalid regex pattern", lit |-> <<>>]
    ELSE [err |-> "", lit |-> pattern]

\* re.FindStringSubmatch for a compiled run of literals
FindStringSubmatch(re, s) == IF Contains(s, re.lit) THEN <<re.lit>> ELSE <<>>

getCompiledPattern(cache, pattern) ==
    IF pattern \in cache THEN [err |-> "", lit |-> pattern] ELSE Compile(pattern)

matchRegex(cache, pattern, s) ==
    LET re == getCompiledPattern(cache, pattern)
    IN  IF re.err # "" THEN [matched |-> FALSE, pattern |-> <<>>, err |-> re.err, detail |-> ""]
        ELSE LET m == FindStringSubmatch(re, s)
             IN  IF Len(m) > 0
                 THEN [matched |-> TRUE, pattern |-> m[1], err |-> "", detail |-> ""]
                 ELSE [matched |-> FALSE, pattern |-> <<>>, err |-> "", detail |-> ""]

matchKeyword(keyword, s) ==
    IF Contains(ToLower(s), ToLower(keyword))
    THEN [matched |-> TRUE, pattern |-> keyword, err |-> "", detail |-> ""]
    ELSE [matched |-> FALSE, pattern |-> <<>>, err |-> "", detail |-> ""]

\* the contents the content-safety model answers "unsafe" for
UnsafeContents == {Str_dan}

\* NemoClient.Evaluate: an error without a model identifier; otherwise
\* Triggered is whether the verdict the endpoint returned is "unsafe"
Evaluate(model, s) ==
    IF model = <<>>
    THEN [Triggered |-> FALSE, err |-> "model identifier is required for NeMo evaluation"]
    ELSE [Triggered |-> s \in UnsafeContents, err |-> ""]

\* the profanity detector is a library with a dictionary of its own
ProfaneWords == {<<"d", "a", "r", "n">>}

IsProfane(s) == \E w \in ProfaneWords : Contains(ToLower(s), w)

matchProfanity(s) ==
    IF IsProfane(s)
    THEN [matched |-> TRUE, pattern |-> <<"profanity detected">>, err |-> "", detail |-> ""]
    ELSE [matched |-> FALSE, pattern |-> <<>>, err |-> "", detail |-> ""]

checkPolicyMatch(cache, policy, s) ==
    CASE policy.PatternType = "regex" -> matchRegex(cache, policy.PatternValue, s)
      [] policy.PatternType = "keyword" -> matchKeyword(policy.PatternValue, s)
      [] policy.PatternType = "profanity" -> matchProfanity(s)
      [] OTHER -> [matched |-> FALSE, pattern |-> <<>>, err |-> "unknown pattern type",
                   detail |-> policy.PatternType]

\* the cache after getCompiledPattern: a pattern that compiles is stored
CacheAfter(cache, policy) ==
    IF policy.PatternType = "regex" /\ Compile(policy.PatternValue).err = ""
    THEN cache \cup {policy.PatternValue}
    ELSE cache

NoErr == [policy |-> "", cause |-> "", detail |-> ""]

NoMatch == [PolicyID |-> 0, PolicyName |-> "", Severity |-> "", MatchedPattern |-> <<>>]

NoResult == [match |-> NoMatch, err |-> NoErr, found |-> FALSE]

\* the policyResult a matcher goroutine builds from its check
policyResult(p, chk) ==
    IF chk.err # ""
    THEN [match |-> NoMatch, err |-> [policy |-> p.Name, cause |-> chk.err, detail |-> chk.detail],
          found |-> FALSE]
    ELSE IF chk.matched
    THEN [match |-> [PolicyID |-> p.ID, PolicyName |-> p.Name, Severity |-> p.Severity,
                     MatchedPattern |-> chk.pattern],
          err |-> NoErr, found |-> TRUE]
    ELSE NoResult

\* a filter that lets every policy through
EnabledPolicies_Unfiltered(ps) == ps

\* analyzer.go 41-46: the enabled policies of the list, in order
EnabledPolicies(ps) == SubAt(ps, {i \in 1..Len(ps) : ps[i].Enabled}, 1)

Idle == [state |-> "idle", matches |-> <<>>, err |-> NoErr, ctxDone |-> FALSE]

Running == [state |-> "running", matches |-> <<>>, err |-> NoErr, ctxDone |-> FALSE]

Returned(ms, e, ctxd) == [state |-> "returned", matches |-> ms, err |-> e, ctxDone |-> ctxd]

Tasks == 1..Len(launched)

\* the token RedactContent puts in the place of a match
Redacted == <<"[", "R", "E", "D", "A", "C", "T", "E", "D", "]">>

Stars(n) == [i \in 1..n |-> "*"]

\* the match of a run of literals at the start of s; fold is the flag (?i)
MatchesAt(s, lit, fold) ==
    /\ Len(lit) > 0
    /\ Len(s) >= Len(lit)
    /\ IF fold THEN ToLower(SubSeq(s, 1, Len(lit))) = ToLower(lit)
               ELSE SubSeq(s, 1, Len(lit)) = lit

\* re.ReplaceAllString for a compiled run of literals: the matches are taken
\* from the left and do not overlap; the text put in place is not matched again
RECURSIVE ReplaceAllString(_, _, _, _)
ReplaceAllString(s, lit, fold, repl) ==
    IF Len(s) = 0 THEN <<>>
    ELSE IF MatchesAt(s, lit, fold)
    THEN repl \o ReplaceAllString(SubSeq(s, Len(lit) + 1, Len(s)), lit, fold, repl)
    ELSE <<s[1]>> \o ReplaceAllString(Tail(s), lit, fold, repl)

\* profanityDet.Censor: the letters of a profane word become asterisks
RECURSIVE CensorWords(_, _)
CensorWords(s, words) ==
    IF words = {} THEN s
    ELSE LET w == CHOOSE x \in words : TRUE
         IN  CensorWords(ReplaceAllString(s, w, TRUE, Stars(Len(w))), words \ {w})

Censor(s) == CensorWords(s, ProfaneWords)

\* policyMap[id]: the last policy of the list with the ID
PolicyMap(ps, id) ==
    LET I == {i \in 1..Len(ps) : ps[i].ID = id}
    IN  IF I = {} THEN [exists |-> FALSE, policy |-> 0]
        ELSE [exists |-> TRUE, policy |-> ps[CHOOSE i \in I : \A j \in I : j <= i]]

\* a loop body that redacts for a policy of any action
RedactMatch_AnyAction(cache, redacted, match, ps) ==
    LET e == PolicyMap(ps, match.PolicyID)
    IN  IF ~e.exists THEN redacted
        ELSE IF e.policy.PatternType = "keyword"
        THEN ReplaceAllString(redacted, e.policy.PatternValue, TRUE, Redacted)
        ELSE redacted

\* the body of RedactContent's loop for one match
RedactMatch(cache, redacted, match, ps) ==
    LET e == PolicyMap(ps, match.PolicyID)
    IN  IF ~e.exists THEN redacted
        ELSE IF e.policy.Action # "redact" THEN redacted
        ELSE IF e.policy.PatternType = "regex"
        THEN LET re == getCompiledPattern(cache, e.policy.PatternValue)
             IN  IF re.err = "" THEN ReplaceAllString(redacted, re.lit, FALSE, Redacted)
                 ELSE redacted
        ELSE IF e.policy.PatternType = "keyword"
        THEN ReplaceAllString(redacted, e.policy.PatternValue, TRUE, Redacted)
        ELSE IF e.policy.PatternType = "profanity" THEN Censor(redacted)
        ELSE redacted

RECURSIVE RedactContent(_, _, _, _)
RedactContent(cache, c, ms, ps) ==
    IF ms = <<>> THEN c
    ELSE RedactContent(cache, RedactMatch(cache, c, Head(ms), ps), Tail(ms), ps)

\* the pattern cache after RedactContent: getCompiledPattern stores the
\* patterns of the regex policies it redacted with
RECURSIVE RedactCacheAfter(_, _, _)
RedactCacheAfter(cache, ms, ps) ==
    IF ms = <<>> THEN cache
    ELSE LET e == PolicyMap(ps, Head(ms).PolicyID)
         IN  RedactCacheAfter(IF e.exists /\ e.policy.Action = "redact"
                                 THEN CacheAfter(cache, e.policy) ELSE cache,
                              Tail(ms), ps)

\* a verdict that blocks on any match
Verdict_AnyMatch(ms, ps) == IF Len(ms) > 0 THEN "block" ELSE "allow"

\* the action HandleAnalyze derives from the matches: "block" when the policy
\* found for a match, the first of the list with its ID, has the action block
Verdict(ms, ps) ==
    IF \E k \in 1..Len(ms) :
          \E i \in 1..Len(ps) :
             /\ ps[i].ID = ms[k].PolicyID
             /\ \A j \in 1..(i - 1) : ps[j].ID # ms[k].PolicyID
             /\ ps[i].Action = "block"
    THEN "block"
    ELSE "allow"

\* allowed, which the loop clears where it sets the action to "block"
Allowed(ms, ps) == Verdict(ms, ps) # "block"

NoResp ==
    [status |-> 0, action |-> "", allowed |-> FALSE, redacted |-> <<>>, submitted |-> 0,
     snapshot |-> <<>>, ctxErr |-> ""]

NoRedact == [content |-> <<>>, matches |-> <<>>, policies |-> <<>>]

\* Analyze has returned and every goroutine it started has ended
Quiescent ==
    /\ ret.state = "returned"
    /\ \A i \in Tasks : tpc[i] = "done"
    /\ impl = "first" /\ Len(launched) > 0 => chClosed

\* a result channel without a buffer
ChanCap_Unbuffered(n) == 0

\* make(chan policyResult, n): the capacity of the result channel of a call
\* that launches n matcher goroutines
ChanCap(n) == n

\* a send on the result channel can proceed
ResultChHasRoom == Len(resultCh) < ChanCap(Len(launched))

\* a context that is done from the start
Done_FromTheStart == TRUE

\* ctx.Done() of the derived context is ready (part_010 62): cancel() has run
\* or the caller's context is done
Done == cancelled \/ parentDone

(***************************************************************************)
(* Analyze of internal/analyzer/analyzer.go: every enabled policy is       *)
(* checked and every result is collected.                                  *)
(***************************************************************************)
AnalyzeAllCall(s, ps) ==
    /\ ret.state = "idle"
    /\ impl' = "all"
    /\ content' = s
    /\ policies' = ps
    /\ launched' = EnabledPolicies(ps)
    /\ tpc' = [i \in 1..Len(launched') |-> "start"]
    /\ tres' = [i \in 1..Len(launched') |-> NoResult]
    /\ resultCh' = <<>>
    /\ chClosed' = FALSE
    /\ cancelled' = FALSE
    /\ parentDone' = FALSE
    /\ received' = 0
    /\ matches' = <<>>
    /\ ret' = IF Len(launched') = 0 THEN Returned(<<>>, NoErr, FALSE) ELSE Running
    /\ UNCHANGED patternCache
    /\ UNCHANGED resp
    /\ UNCHANGED nonAnalyzeVars

\* one matcher goroutine: check the policy, send the result (the channel has
\* room for every goroutine's result)
AnalyzeAllTask(i) ==
    /\ impl = "all"
    /\ i \in Tasks
    /\ tpc[i] = "start"
    /\ ResultChHasRoom
    /\ LET chk == checkPolicyMatch(patternCache, launched[i], content)
       IN  /\ tres' = [tres EXCEPT ![i] = policyResult(launched[i], chk)]
           /\ resultCh' = Append(resultCh, policyResult(launched[i], chk))
    /\ patternCache' = CacheAfter(patternCache, launched[i])
    /\ tpc' = [tpc EXCEPT ![i] = "done"]
    /\ UNCHANGED <<impl, content, policies, launched, chClosed, cancelled, parentDone,
                   received, matches, ret>>
    /\ UNCHANGED resp
    /\ UNCHANGED nonAnalyzeVars

\* one turn of the collecting loop
AnalyzeAllReceive ==
    /\ impl = "all"
    /\ ret.state = "running"
    /\ resultCh # <<>>
    /\ LET result == Head(resultCh)
           ms == IF result.found THEN Append(matches, result.match) ELSE matches
       IN  /\ resultCh' = Tail(resultCh)
           /\ IF result.err # NoErr
              THEN /\ ret' = Returned(<<>>, result.err, parentDone)
                   /\ UNCHANGED <<received, matches>>
              ELSE /\ matches' = ms
                   /\ received' = received + 1
                   /\ ret' = IF received + 1 = Len(launched)
                             THEN Returned(ms, NoErr, parentDone)
                             ELSE ret
    /\ UNCHANGED <<impl, content, policies, launched, tpc, tres, chClosed, cancelled,
                   parentDone, patternCache>>
    /\ UNCHANGED resp
    /\ UNCHANGED nonAnalyzeVars

(***************************************************************************)
(* Analyze of unnamed/part_010: no filter, the first result received ends  *)
(* the evaluation and cancels the derived context.                         *)
(***************************************************************************)
AnalyzeFirstCall(s, ps) ==
    /\ ret.state = "idle"
    /\ impl' = "first"
    /\ content' = s
    /\ policies' = ps
    /\ launched' = ps
    /\ tpc' = [i \in 1..Len(ps) |-> "start"]
    /\ tres' = [i \in 1..Len(ps) |-> NoResult]
    /\ resultCh' = <<>>
    /\ chClosed' = FALSE
    /\ cancelled' = FALSE
    /\ parentDone' = FALSE
    /\ received' = 0
    /\ matches' = <<>>
    /\ ret' = IF Len(ps) = 0 THEN Returned(<<>>, NoErr, FALSE) ELSE Running
    /\ UNCHANGED patternCache
    /\ UNCHANGED resp
    /\ UNCHANGED nonAnalyzeVars

\* a matcher goroutine up to its send: leave if the context is done, else
\* check the policy; a policy that does not match sends nothing
AnalyzeFirstTask(i) ==
    /\ impl = "first"
    /\ i \in Tasks
    /\ tpc[i] = "start"
    /\ IF Done
       THEN /\ tpc' = [tpc EXCEPT ![i] = "done"]
            /\ UNCHANGED <<tres, patternCache>>
       ELSE LET chk == checkPolicyMatch(patternCache, launched[i], content)
            IN  /\ tres' = [tres EXCEPT ![i] = policyResult(launched[i], chk)]
                /\ patternCache' = CacheAfter(patternCache, launched[i])
                /\ tpc' = [tpc EXCEPT ![i] =
                             IF chk.err # "" \/ chk.matched THEN "send" ELSE "done"]
    /\ UNCHANGED <<impl, content, policies, launched, resultCh, chClosed, cancelled,
                   parentDone, received, matches, ret>>
    /\ UNCHANGED resp
    /\ UNCHANGED nonAnalyzeVars

\* the goroutine's select: the send is always ready (the channel has room);
\* once the context is done either case may be taken
AnalyzeFirstSend(i) ==
    /\ impl = "first"
    /\ i \in Tasks
    /\ tpc[i] = "send"
    /\ \/ ResultChHasRoom /\ resultCh' = Append(resultCh, tres[i])
       \/ Done /\ UNCHANGED resultCh
    /\ tpc' = [tpc EXCEPT ![i] = "done"]
    /\ UNCHANGED <<impl, content, policies, launched, tres, chClosed, cancelled,
                   parentDone, received, matches, ret, patternCache>>
    /\ UNCHANGED resp
    /\ UNCHANGED nonAnalyzeVars

\* wg.Wait(); close(resultCh)
AnalyzeFirstClose ==
    /\ impl = "first"
    /\ Len(launched) > 0
    /\ ~chClosed
    /\ \A i \in Tasks : tpc[i] = "done"
    /\ chClosed' = TRUE
    /\ UNCHANGED <<impl, content, policies, launched, tpc, tres, resultCh, cancelled,
                   parentDone, received, matches, ret, patternCache>>
    /\ UNCHANGED resp
    /\ UNCHANGED nonAnalyzeVars

\* the range loop receives a result: an error or a match ends the evaluation
AnalyzeFirstReceive ==
    /\ impl = "first"
    /\ ret.state = "running"
    /\ resultCh # <<>>
    /\ LET result == Head(resultCh)
       IN  /\ resultCh' = Tail(resultCh)
           /\ IF result.err # NoErr
              THEN /\ cancelled' = TRUE
                   /\ ret' = Returned(<<>>, result.err, parentDone)
              ELSE IF result.found
              THEN /\ cancelled' = TRUE
                   /\ ret' = Returned(<<result.match>>, NoErr, parentDone)
              ELSE UNCHANGED <<cancelled, ret>>
    /\ UNCHANGED <<impl, content, policies, launched, tpc, tres, chClosed, parentDone,
                   received, matches, patternCache>>
    /\ UNCHANGED resp
    /\ UNCHANGED nonAnalyzeVars

\* the range loop ends on the closed, empty channel; the deferred cancel runs
AnalyzeFirstReceiveClosed ==
    /\ impl = "first"
    /\ ret.state = "running"
    /\ resultCh = <<>>
    /\ chClosed
    /\ cancelled' = TRUE
    /\ ret' = Returned(<<>>, NoErr, parentDone)
    /\ UNCHANGED <<impl, content, policies, launched, tpc, tres, resultCh, chClosed,
                   parentDone, received, matches, patternCache>>
    /\ UNCHANGED resp
    /\ UNCHANGED nonAnalyzeVars

\* the caller is done with what Analyze returned and the goroutines of the
\* call have ended: nothing of the call remains but the pattern cache
AnalyzeDone ==
    /\ Quiescent
    /\ impl' = "none"
    /\ content' = <<>>
    /\ policies' = <<>>
    /\ launched' = <<>>
    /\ tpc' = <<>>
    /\ tres' = <<>>
    /\ resultCh' = <<>>
    /\ chClosed' = FALSE
    /\ cancelled' = FALSE
    /\ parentDone' = FALSE
    /\ received' = 0
    /\ matches' = <<>>
    /\ ret' = Idle
    /\ UNCHANGED patternCache
    /\ resp' = NoResp
    /\ UNCHANGED nonAnalyzeVars

\* the caller's context is cancelled or reaches its deadline while Analyze
\* runs; only part_010 reads the context
ParentCancel ==
    /\ impl = "first"
    /\ ret.state = "running"
    /\ ~parentDone
    /\ parentDone' = TRUE
    /\ UNCHANGED <<impl, content, policies, launched, tpc, tres, resultCh, chClosed,
                   cancelled, received, matches, ret, patternCache>>
    /\ UNCHANGED resp
    /\ UNCHANGED nonAnalyzeVars

\* the snapshots HandleAnalyze gets from the policy cache
MaxSnapshot == 2

\* a handler that gets the snapshot again for the verdict and the redaction
HandlerPolicies_GetAgain == [i \in 1..Len(cached) |-> PolicyPool[cached[i]]]

\* the handler's local policies, which it passed to Analyze
HandlerPolicies == policies

Snapshots == {ps \in PolicyLists : Len(ps) <= MaxSnapshot}

\* an error answer that is 500 whatever the context says
ErrorStatus_Always500(ctxErr) == 500

\* the status of the answer to a failed evaluation, from r.Context().Err()
ErrorStatus(ctxErr) == IF ctxErr = "DeadlineExceeded" THEN 504 ELSE 500

\* r.Context().Err() when the handler reads it: a context that was done when
\* Analyze returned is past its deadline or cancelled; one that was not may
\* have become either since
CtxErrAtCheck ==
    IF parentDone THEN {"DeadlineExceeded", "Canceled"}
    ELSE {"", "DeadlineExceeded", "Canceled"}

\* HandleAnalyze after Analyze has returned.  An error is answered 504 when
\* the request's context is past its deadline and 500 otherwise, and the
\* handler returns.  Otherwise the handler derives the verdict, redacts the
\* prompt when there are matches, calls Logger.Log with the audit entry and
\* answers 200.
HandleAnalyzeRespond ==
    /\ ret.state = "returned"
    /\ resp.status = 0
    /\ IF ret.err # NoErr
       THEN /\ \E ce \in CtxErrAtCheck :
                 resp' = [NoResp EXCEPT !.status = ErrorStatus(ce), !.ctxErr = ce]
            /\ UNCHANGED <<nextRec, logChannel, auditRows, saturated, patternCache>>
       ELSE /\ nextRec < MaxRecords
            /\ nextRec' = nextRec + 1
            /\ LET entry == nextRec + 1
               IN  IF SendReady(logChannel)
                   THEN /\ logChannel' = Append(logChannel, entry)
                        /\ UNCHANGED <<auditRows, saturated>>
                   ELSE \E dbErr \in BOOLEAN :
                        /\ auditRows' = writeToDatabase(auditRows, entry, dbErr)
                        /\ saturated' = saturated \cup {entry}
                        /\ UNCHANGED logChannel
            /\ patternCache' = RedactCacheAfter(patternCache, ret.matches, HandlerPolicies)
            /\ resp' = [status |-> 200,
                        action |-> Verdict(ret.matches, HandlerPolicies),
                        allowed |-> Allowed(ret.matches, HandlerPolicies),
                        redacted |-> IF Len(ret.matches) > 0
                                     THEN RedactContent(patternCache, content, ret.matches,
                                                        HandlerPolicies)
                                     ELSE <<>>,
                        submitted |-> 1,
                        snapshot |-> HandlerPolicies,
                        ctxErr |-> ""]
    /\ UNCHANGED <<impl, content, policies, launched, tpc, tres, resultCh, chClosed,
                   cancelled, parentDone, received, matches, ret>>
    /\ UNCHANGED <<queue, drainVars, stopCh, wpc, wentry, closePc, dequeued, atStop>>
    /\ UNCHANGED <<cacheVars, redactVars, syncVars, compileVars>>

\* HandleAnalyze from its Get to its call of Analyze: the policies are what
\* the Get returned
PoliciesOf(ids) == [i \in 1..Len(ids) |-> PolicyPool[ids[i]]]

HandleAnalyzeEvaluate(s, g) ==
    /\ gpc[g] = "returned"
    /\ AnalyzeAllCall(s, PoliciesOf(gcaller[g]))

\* the request is answered and the goroutines of its evaluation have ended
HandleAnalyzeReturn ==
    /\ resp.status # 0
    /\ AnalyzeDone

(***************************************************************************)
(* getCompiledPattern step by step, called by goroutines that run side by  *)
(* side (the matchers of one evaluation or of several).                    *)
(***************************************************************************)
NumCallers == 2

Callers == 1..NumCallers

\* the regex patterns of the pool
Patterns ==
    {PolicyPool[i].PatternValue : i \in {j \in 1..Len(PolicyPool) :
                                            PolicyPool[j].PatternType = "regex"}}

\* RLock; re, exists := a.patternCache[pattern]; RUnlock.  On a hit the call
\* returns at once
getCompiledPattern_Read(c, pattern) ==
    /\ cpc[c] \in {"idle", "returned"}
    /\ cpat' = [cpat EXCEPT ![c] = pattern]
    /\ cpc' = [cpc EXCEPT ![c] = IF pattern \in patternCache THEN "returned" ELSE "missed"]
    /\ UNCHANGED writes
    /\ UNCHANGED <<impl, content, policies, launched, tpc, tres, resultCh, chClosed,
                   cancelled, parentDone, received, matches, ret, patternCache, resp>>
    /\ UNCHANGED <<auditVars, drainVars, loggerVars, cacheVars, redactVars, syncVars>>

\* after a miss: regexp.Compile, whose error is returned; otherwise Lock,
\* a.patternCache[pattern] = re, Unlock, without a second look at the map
getCompiledPattern_Store(c) ==
    /\ cpc[c] = "missed"
    /\ cpc' = [cpc EXCEPT ![c] = "returned"]
    /\ IF Compile(cpat[c]).err # ""
       THEN UNCHANGED <<patternCache, writes>>
       ELSE /\ patternCache' = patternCache \cup {cpat[c]}
            /\ writes' = [writes EXCEPT ![cpat[c]] = @ + 1]
    /\ UNCHANGED cpat
    /\ UNCHANGED <<impl, content, policies, launched, tpc, tres, resultCh, chClosed,
                   cancelled, parentDone, received, matches, ret, resp>>
    /\ UNCHANGED <<auditVars, drainVars, loggerVars, cacheVars, redactVars, syncVars>>

(***************************************************************************)
(* RedactContent called on its own, as the tests call it, and called again *)
(* on what it returned.                                                    *)
(***************************************************************************)
MaxRedactPolicies == 2

Str_darn == <<"d", "a", "r", "n">>

RedactContents == {Str_dan, Str_darn, Str_ok}

RedactPool ==
    << [ID |-> 1, Name |-> "r1", PatternType |-> "keyword", PatternValue |-> <<"d">>,
        Severity |-> "high", Action |-> "redact", Enabled |-> TRUE],
       [ID |-> 2, Name |-> "r2", PatternType |-> "regex", PatternValue |-> <<"a", "n">>,
        Severity |-> "medium", Action |-> "redact", Enabled |-> TRUE],
       [ID |-> 3, Name |-> "r3", PatternType |-> "regex", PatternValue |-> <<"[">>,
        Severity |-> "medium", Action |-> "redact", Enabled |-> TRUE],
       [ID |-> 4, Name |-> "r4", PatternType |-> "profanity", PatternValue |-> <<"x">>,
        Severity |-> "low", Action |-> "redact", Enabled |-> TRUE],
       [ID |-> 5, Name |-> "r5", PatternType |-> "keyword", PatternValue |-> <<"D", "A", "N">>,
        Severity |-> "high", Action |-> "block", Enabled |-> TRUE],
       [ID |-> 6, Name |-> "r6", PatternType |-> "keyword", PatternValue |-> <<"a">>,
        Severity |-> "low", Action |-> "log", Enabled |-> TRUE] >>

RedactLists ==
    {SubAt(RedactPool, S, 1) :
        S \in {T \in SUBSET (1..Len(RedactPool)) : Cardinality(T) <= MaxRedactPolicies}}

\* the match lists over a policy list: one match for each policy of a part of it
MatchLists(ps) ==
    {[k \in 1..Len(qs) |-> [PolicyID |-> qs[k].ID, PolicyName |-> qs[k].Name,
                            Severity |-> qs[k].Severity,
                            MatchedPattern |-> qs[k].PatternValue]] :
        qs \in {SubAt(ps, S, 1) : S \in SUBSET (1..Len(ps))}}

RedactContentCall(c, ms, ps) ==
    /\ rdpc = "idle"
    /\ rdpc' = "once"
    /\ rdIn' = [content |-> c, matches |-> ms, policies |-> ps]
    /\ rdOut' = RedactContent(patternCache, c, ms, ps)
    /\ patternCache' = RedactCacheAfter(patternCache, ms, ps)
    /\ UNCHANGED rdAgain
    /\ UNCHANGED <<impl, content, policies, launched, tpc, tres, resultCh, chClosed,
                   cancelled, parentDone, received, matches, ret, resp>>
    /\ UNCHANGED <<auditVars, drainVars, loggerVars, cacheVars, syncVars, compileVars>>

RedactContentAgain ==
    /\ rdpc = "once"
    /\ rdpc' = "twice"
    /\ rdAgain' = RedactContent(patternCache, rdOut, rdIn.matches, rdIn.policies)
    /\ patternCache' = RedactCacheAfter(patternCache, rdIn.matches, rdIn.policies)
    /\ UNCHANGED <<rdIn, rdOut>>
    /\ UNCHANGED <<impl, content, policies, launched, tpc, tres, resultCh, chClosed,
                   cancelled, parentDone, received, matches, ret, resp>>
    /\ UNCHANGED <<auditVars, drainVars, loggerVars, cacheVars, syncVars, compileVars>>

\* the caller drops what the two calls returned
RedactContentDone ==
    /\ rdpc = "twice"
    /\ rdpc' = "idle"
    /\ rdIn' = NoRedact
    /\ rdOut' = <<>>
    /\ rdAgain' = <<>>
    /\ UNCHANGED analyzeVars
    /\ UNCHANGED <<auditVars, drainVars, loggerVars, cacheVars, syncVars, compileVars>>

(***************************************************************************)
(* The policy caches.  A process constructs one of the two: PolicyCache    *)
(* (policy_cache.go) over the policies table, or RedisCache                *)
(* (redis_cache.go) over the key-value store and the table.  A policy is   *)
(* named by its id; the policy with id k is PolicyPool[k].                 *)
(***************************************************************************)
MaxPolicyIDs == 2

NumGetters == 1

MaxExpiries == 1

Getters == 1..NumGetters

Refreshers == {"worker", "invalidate"}

PolicyIDs == 1..MaxPolicyIDs

Reverse(s) == [i \in 1..Len(s) |-> s[Len(s) - i + 1]]

\* SMembers: the members of an id set; the order the store returns them in
\* is taken to be ascending
RECURSIVE SMembers(_)
SMembers(S) ==
    IF S = {} THEN <<>>
    ELSE LET m == CHOOSE x \in S : \A y \in S : x <= y
         IN  <<m>> \o SMembers(S \ {m})

\* Repository.List: the enabled rows, newest first
List(rows) == Reverse(SubAt(rows, {i \in 1..Len(rows) : PolicyPool[rows[i]].Enabled}, 1))

\* a lock that every writer is granted at once
CanLock_Always(rd) == TRUE

\* mu.Lock() is granted when no reader holds the lock (a writer holds it for
\* one step only)
CanLock(rd) == rd = {}

\* a make that hands out the backing array of the cache's slice
MakeShares_CacheArray == TRUE

\* make allocates a backing array of its own: the result shares none with
\* the cache's slice
MakeShares == FALSE

\* copy(result, policies) into a slice made with n elements
CopyInto(n, ps) == [i \in 1..n |-> IF i <= Len(ps) THEN ps[i] ELSE 0]

\* the snapshot values a Get in flight has lived through, after a write
SeenAfter(ps, whole) ==
    [g \in Getters |->
        IF gpc[g] \in {"locked", "copied"}
        THEN gseen[g] \cup {[list |-> ps, whole |-> whole]}
        ELSE gseen[g]]

(***************************************************************************)
(* PolicyCache.                                                            *)
(***************************************************************************)
\* a Start that launches the refresh loop before its initial load
LaunchBeforeLoad_Always == TRUE

\* Start launches the refresh loop after the initial load has succeeded
LaunchBeforeLoad == FALSE

\* NewPolicyCache and Start, before anything else runs: the initial refresh
\* and, when it returned no error, refreshOnce.Do(go pc.refreshWorker(ctx));
\* when it returned one, Start returns it and main ends with log.Fatalf
PolicyCacheStart ==
    /\ cacheKind = "none"
    /\ \E err \in BOOLEAN :
          IF err
          THEN /\ cacheKind' = "failed"
               /\ loops' = IF LaunchBeforeLoad THEN loops + 1 ELSE loops
               /\ UNCHANGED <<cached, cachedWhole>>
          ELSE /\ cacheKind' = "PolicyCache"
               /\ cached' = List(dbRows)
               /\ cachedWhole' = TRUE
               /\ loops' = loops + 1
    /\ UNCHANGED <<readers, dbRows, nextID, redisSet, redisKeys, pendingWrites, rpc, rlist,
                   gpc, glen, gresult, gseen>>
    /\ UNCHANGED <<gcaller, gshared>>
    /\ UNCHANGED <<expiries, rlast>>
    /\ UNCHANGED <<hcp, announced, rmissing>>
    /\ UNCHANGED nonCacheVars
    /\ UNCHANGED pcStopVars

\* the create requests a client sends: the fields of a pool policy
CreateRequests == {2, 5, 6, 9}

CreateRequest(k) ==
    [Name |-> PolicyPool[k].Name, PatternType |-> PolicyPool[k].PatternType,
     PatternValue |-> PolicyPool[k].PatternValue, Severity |-> PolicyPool[k].Severity,
     Action |-> PolicyPool[k].Action]

\* validateCreateRequest: the error, "" for none
validateCreateRequest(req) ==
    IF req.Name = "" THEN "name is required"
    ELSE IF req.PatternType \notin {"regex", "keyword", "profanity", "model"}
    THEN "pattern_type must be one of: regex, keyword, profanity, model"
    ELSE IF req.PatternValue = <<>> THEN "pattern_value is required"
    ELSE IF req.Severity \notin {"low", "medium", "high", "critical"}
    THEN "invalid severity"
    ELSE IF req.Action \notin {"log", "block", "redact"} THEN "invalid action"
    ELSE ""

\* HandleCreatePolicy up to its call of Invalidate: Repository.Create
\* validates the request and inserts the row; an error is answered 400
HandleCreatePolicy(k) ==
    /\ cacheKind = "PolicyCache"
    /\ rpc["invalidate"] = "idle"
    /\ Len(dbRows) < MaxPolicyIDs
    /\ k \notin Range(dbRows)
    /\ \E dbErr \in BOOLEAN :
          IF validateCreateRequest(CreateRequest(k)) # "" \/ dbErr
          THEN /\ hcp' = [req |-> k, status |-> 400]
               /\ UNCHANGED <<dbRows, rpc>>
          ELSE /\ dbRows' = Append(dbRows, k)
               /\ rpc' = [rpc EXCEPT !["invalidate"] = "called"]
               /\ hcp' = [req |-> k, status |-> 0]
    /\ UNCHANGED <<cacheKind, cached, cachedWhole, readers, nextID, redisSet, redisKeys,
                   pendingWrites, rlist, gpc, glen, gresult, gseen>>
    /\ UNCHANGED <<gcaller, gshared>>
    /\ UNCHANGED <<expiries, rlast>>
    /\ UNCHANGED <<announced, loops, rmissing>>
    /\ UNCHANGED nonCacheVars
    /\ UNCHANGED pcStopVars

\* an answer that reports the error of Invalidate
CreatedStatus_ErrorOnInvalidate(invalidateErr) == IF invalidateErr THEN 500 ELSE 201

\* the status HandleCreatePolicy answers with once the row is inserted: the
\* error of Invalidate is logged and the answer is "created" either way
CreatedStatus(invalidateErr) == 201

\* a refresh that returns out of its caller's loop when the list fails
AfterListError_Stopped == "stopped"

\* where a refresher is after refresh returned the list's error: the worker
\* has logged it and waits for the next tick, Invalidate has returned it
AfterListError == "idle"

\* refresh, up to the lock: list the table; an error ends the refresh
refresh_List(p) ==
    /\ cacheKind \in {"PolicyCache", "failed"}
    /\ p = "worker" => (loops > 0 /\ ~rwDone)
    /\ rpc[p] = IF p = "worker" THEN "idle" ELSE "called"
    /\ \E err \in BOOLEAN :
          IF err
          THEN /\ rpc' = [rpc EXCEPT ![p] = AfterListError]
               /\ rlast' = [rlast EXCEPT ![p] = "failed"]
               /\ hcp' = IF p = "invalidate"
                         THEN [hcp EXCEPT !.status = CreatedStatus(TRUE)] ELSE hcp
               /\ UNCHANGED rlist
          ELSE /\ rpc' = [rpc EXCEPT ![p] = "listed"]
               /\ rlist' = [rlist EXCEPT ![p] = List(dbRows)]
               /\ UNCHANGED <<rlast, hcp>>
    /\ UNCHANGED <<cacheKind, cached, cachedWhole, readers, dbRows, nextID, redisSet,
                   redisKeys, pendingWrites, gpc, glen, gresult, gseen>>
    /\ UNCHANGED <<gcaller, gshared>>
    /\ UNCHANGED expiries
    /\ UNCHANGED <<announced, loops, rmissing>>
    /\ UNCHANGED nonCacheVars
    /\ lateTick' = IF p = "worker" THEN pcStop ELSE lateTick
    /\ UNCHANGED <<pcStop, rwDone>>

\* refresh: Lock; pc.policies = policies; Unlock
refresh_Swap(p) ==
    /\ cacheKind \in {"PolicyCache", "failed"}
    /\ rpc[p] = "listed"
    /\ CanLock(readers)
    /\ cached' = rlist[p]
    /\ cachedWhole' = TRUE
    /\ gseen' = SeenAfter(rlist[p], TRUE)
    /\ rpc' = [rpc EXCEPT ![p] = "idle"]
    /\ rlist' = [rlist EXCEPT ![p] = <<>>]
    /\ UNCHANGED <<cacheKind, readers, dbRows, nextID, redisSet, redisKeys, pendingWrites,
                   gpc, glen, gresult>>
    /\ UNCHANGED <<gcaller, gshared>>
    /\ rlast' = [rlast EXCEPT ![p] = "ok"]
    /\ UNCHANGED expiries
    /\ hcp' = IF p = "invalidate" THEN [hcp EXCEPT !.status = CreatedStatus(FALSE)] ELSE hcp
    /\ announced' = IF p = "invalidate" THEN announced \cup {hcp.req} ELSE announced
    /\ UNCHANGED <<loops, rmissing>>
    /\ UNCHANGED nonCacheVars
    /\ UNCHANGED pcStopVars

\* PolicyCache.Stop: close(pc.stopChan); main defers it once
PolicyCacheStop ==
    /\ cacheKind = "PolicyCache"
    /\ ~pcStop
    /\ pcStop' = TRUE
    /\ UNCHANGED <<rwDone, lateTick>>
    /\ UNCHANGED <<cacheKind, cached, cachedWhole, readers, dbRows, nextID, redisSet,
                   redisKeys, pendingWrites, rpc, rlist, gpc, glen, gresult, gseen>>
    /\ UNCHANGED <<gcaller, gshared>>
    /\ UNCHANGED <<expiries, rlast>>
    /\ UNCHANGED <<hcp, announced, loops, rmissing>>
    /\ UNCHANGED nonCacheVars

\* refreshWorker, in its select with stopChan closed, takes the stop case:
\* refreshTicker.Stop() and return.  The tick case is refresh_List("worker"):
\* the ticker runs until this step, and select chooses among the cases that
\* are ready
refreshWorker_StopCase ==
    /\ loops > 0
    /\ ~rwDone
    /\ rpc["worker"] = "idle"
    /\ pcStop
    /\ rwDone' = TRUE
    /\ UNCHANGED <<pcStop, lateTick>>
    /\ UNCHANGED <<cacheKind, cached, cachedWhole, readers, dbRows, nextID, redisSet,
                   redisKeys, pendingWrites, rpc, rlist, gpc, glen, gresult, gseen>>
    /\ UNCHANGED <<gcaller, gshared>>
    /\ UNCHANGED <<expiries, rlast>>
    /\ UNCHANGED <<hcp, announced, loops, rmissing>>
    /\ UNCHANGED nonCacheVars

(***************************************************************************)
(* Get, of either cache: RLock and make(len), copy, RUnlock.               *)
(***************************************************************************)
Get_RLock(g) ==
    /\ cacheKind # "none"
    /\ gpc[g] \in {"idle", "returned"}
    /\ gpc' = [gpc EXCEPT ![g] = "locked"]
    /\ readers' = readers \cup {g}
    /\ glen' = [glen EXCEPT ![g] = Len(cached)]
    /\ gresult' = [gresult EXCEPT ![g] = <<>>]
    /\ gseen' = [gseen EXCEPT ![g] = {[list |-> cached, whole |-> cachedWhole]}]
    /\ UNCHANGED <<cacheKind, cached, cachedWhole, dbRows, nextID, redisSet, redisKeys,
                   pendingWrites, rpc, rlist>>
    /\ gshared' = [gshared EXCEPT ![g] = MakeShares]
    /\ gcaller' = [gcaller EXCEPT ![g] = <<>>]
    /\ UNCHANGED <<expiries, rlast>>
    /\ UNCHANGED <<hcp, announced, loops, rmissing>>
    /\ UNCHANGED nonCacheVars
    /\ UNCHANGED pcStopVars

Get_Copy(g) ==
    /\ gpc[g] = "locked"
    /\ gpc' = [gpc EXCEPT ![g] = "copied"]
    /\ gresult' = [gresult EXCEPT ![g] = CopyInto(glen[g], cached)]
    /\ UNCHANGED <<cacheKind, cached, cachedWhole, readers, dbRows, nextID, redisSet,
                   redisKeys, pendingWrites, rpc, rlist, glen, gseen>>
    /\ UNCHANGED <<gcaller, gshared>>
    /\ UNCHANGED <<expiries, rlast>>
    /\ UNCHANGED <<hcp, announced, loops, rmissing>>
    /\ UNCHANGED nonCacheVars
    /\ UNCHANGED pcStopVars

Get_RUnlock(g) ==
    /\ gpc[g] = "copied"
    /\ gpc' = [gpc EXCEPT ![g] = "returned"]
    /\ readers' = readers \ {g}
    /\ UNCHANGED <<cacheKind, cached, cachedWhole, dbRows, nextID, redisSet, redisKeys,
                   pendingWrites, rpc, rlist, glen, gresult, gseen>>
    /\ gcaller' = [gcaller EXCEPT ![g] = gresult[g]]
    /\ UNCHANGED gshared
    /\ UNCHANGED <<expiries, rlast>>
    /\ UNCHANGED <<hcp, announced, loops, rmissing>>
    /\ UNCHANGED nonCacheVars
    /\ UNCHANGED pcStopVars

\* what a caller may do to the sequence a Get returned
Mutations == {"truncate", "reorder", "alter"}

Mutated(ps, kind) ==
    CASE kind = "truncate" -> SubSeq(ps, 1, Len(ps) - 1)
      [] kind = "reorder" -> Reverse(ps)
      [] OTHER -> [ps EXCEPT ![1] = 0]

\* the caller of a Get changes the sequence it was returned; the cache's
\* slice is written through only if the two have one backing array (a
\* truncation writes no element)
CallerMutates(g, kind) ==
    /\ gpc[g] = "returned"
    /\ Len(gcaller[g]) > 0
    /\ gcaller[g] = gresult[g]
    /\ gcaller' = [gcaller EXCEPT ![g] = Mutated(gcaller[g], kind)]
    /\ cached' = IF gshared[g] /\ cached = gresult[g] /\ kind # "truncate"
                 THEN Mutated(cached, kind)
                 ELSE cached
    /\ UNCHANGED <<cacheKind, cachedWhole, readers, dbRows, nextID, redisSet, redisKeys,
                   pendingWrites, rpc, rlist, gpc, glen, gresult, gseen, gshared>>
    /\ UNCHANGED <<expiries, rlast>>
    /\ UNCHANGED <<hcp, announced, loops, rmissing>>
    /\ UNCHANGED nonCacheVars
    /\ UNCHANGED pcStopVars

(***************************************************************************)
(* RedisCache.  redisSet is the id set at the policies key, redisKeys the  *)
(* ids whose own policy key is live.                                       *)
(***************************************************************************)
\* NewRedisCache and Start: loadFromPostgres, then refreshFromRedis, before
\* anything else runs
RedisCacheStart ==
    /\ cacheKind = "none"
    /\ cacheKind' = "RedisCache"
    /\ redisSet' = Range(List(dbRows))
    /\ redisKeys' = redisKeys \cup Range(List(dbRows))
    /\ cached' = SMembers(Range(List(dbRows)))
    /\ cachedWhole' = TRUE
    /\ UNCHANGED <<readers, dbRows, nextID, pendingWrites, rpc, rlist, gpc, glen, gresult,
                   gseen>>
    /\ UNCHANGED <<gcaller, gshared>>
    /\ UNCHANGED <<expiries, rlast>>
    /\ UNCHANGED <<hcp, announced, loops, rmissing>>
    /\ UNCHANGED nonCacheVars
    /\ UNCHANGED pcStopVars

\* Invalidate is called
Invalidate ==
    /\ cacheKind = "RedisCache"
    /\ rpc["invalidate"] = "idle"
    /\ rpc' = [rpc EXCEPT !["invalidate"] = "called"]
    /\ UNCHANGED <<cacheKind, cached, cachedWhole, readers, dbRows, nextID, redisSet,
                   redisKeys, pendingWrites, rlist, gpc, glen, gresult, gseen>>
    /\ UNCHANGED <<gcaller, gshared>>
    /\ UNCHANGED <<expiries, rlast>>
    /\ UNCHANGED <<hcp, announced, loops, rmissing>>
    /\ UNCHANGED nonCacheVars
    /\ UNCHANGED pcStopVars

\* loadFromPostgres, for Invalidate: list the table, delete the id set, set
\* the policies one by one; an error (of List, of Del, or of the set of the
\* policy after the first k) ends Invalidate
loadFromPostgres ==
    /\ cacheKind = "RedisCache"
    /\ rpc["invalidate"] = "called"
    /\ \/ /\ rpc' = [rpc EXCEPT !["invalidate"] = "idle"]
          /\ UNCHANGED <<redisSet, redisKeys>>
       \/ \E k \in 0..Len(List(dbRows)) :
             LET stored == {List(dbRows)[i] : i \in 1..k}
             IN  /\ redisSet' = stored
                 /\ redisKeys' = redisKeys \cup stored
                 /\ rpc' = [rpc EXCEPT !["invalidate"] =
                              IF k = Len(List(dbRows)) THEN "loaded" ELSE "idle"]
    /\ UNCHANGED <<cacheKind, cached, cachedWhole, readers, dbRows, nextID, pendingWrites,
                   rlist, gpc, glen, gresult, gseen>>
    /\ UNCHANGED <<gcaller, gshared>>
    /\ UNCHANGED <<expiries, rlast>>
    /\ UNCHANGED <<hcp, announced, loops, rmissing>>
    /\ UNCHANGED nonCacheVars
    /\ UNCHANGED pcStopVars

\* refreshFromRedis, up to the lock: read the id set (an error ends the
\* refresh), read each policy, leave out those that cannot be read
refreshFromRedis_Read(p) ==
    /\ cacheKind = "RedisCache"
    /\ rpc[p] = IF p = "worker" THEN "idle" ELSE "loaded"
    /\ \/ /\ rpc' = [rpc EXCEPT ![p] = "idle"]
          /\ UNCHANGED <<rlist, rmissing>>
       \/ LET policyIDs == SMembers(redisSet)
          IN  /\ rlist' = [rlist EXCEPT ![p] =
                             SubAt(policyIDs,
                                   {i \in 1..Len(policyIDs) : policyIDs[i] \in redisKeys}, 1)]
              /\ rmissing' = [rmissing EXCEPT ![p] = redisSet \ redisKeys]
              /\ rpc' = [rpc EXCEPT ![p] = "listed"]
    /\ UNCHANGED <<cacheKind, cached, cachedWhole, readers, dbRows, nextID, redisSet,
                   redisKeys, pendingWrites, gpc, glen, gresult, gseen>>
    /\ UNCHANGED <<gcaller, gshared>>
    /\ UNCHANGED <<expiries, rlast>>
    /\ UNCHANGED <<hcp, announced, loops>>
    /\ UNCHANGED nonCacheVars
    /\ UNCHANGED pcStopVars

\* refreshFromRedis: Lock; rc.policies = policies; Unlock
refreshFromRedis_Swap(p) ==
    /\ cacheKind = "RedisCache"
    /\ rpc[p] = "listed"
    /\ CanLock(readers)
    /\ cached' = rlist[p]
    /\ cachedWhole' = TRUE
    /\ gseen' = SeenAfter(rlist[p], TRUE)
    /\ rpc' = [rpc EXCEPT ![p] = "idle"]
    /\ rlist' = [rlist EXCEPT ![p] = <<>>]
    /\ rmissing' = [rmissing EXCEPT ![p] = {}]
    /\ UNCHANGED <<cacheKind, readers, dbRows, nextID, redisSet, redisKeys, pendingWrites,
                   gpc, glen, gresult>>
    /\ UNCHANGED <<gcaller, gshared>>
    /\ UNCHANGED <<expiries, rlast>>
    /\ UNCHANGED <<hcp, announced, loops>>
    /\ UNCHANGED nonCacheVars
    /\ UNCHANGED pcStopVars

\* Create: set the policy in the key-value store (an error of Set or of SAdd
\* ends Create), then append it to the in-memory list and the pending writes
Create ==
    /\ cacheKind = "RedisCache"
    /\ nextID < MaxPolicyIDs
    /\ nextID' = nextID + 1
    /\ \E outcome \in {"ok", "SetErr", "SAddErr"} :
          /\ redisKeys' = IF outcome = "SetErr" THEN redisKeys
                          ELSE redisKeys \cup {nextID + 1}
          /\ redisSet' = IF outcome = "ok" THEN redisSet \cup {nextID + 1} ELSE redisSet
          /\ IF outcome = "ok"
             THEN /\ CanLock(readers)
                  /\ cached' = Append(cached, nextID + 1)
                  /\ cachedWhole' = FALSE
                  /\ gseen' = SeenAfter(Append(cached, nextID + 1), FALSE)
                  /\ pendingWrites' = Append(pendingWrites, nextID + 1)
             ELSE UNCHANGED <<cached, cachedWhole, gseen, pendingWrites>>
    /\ UNCHANGED <<cacheKind, readers, dbRows, rpc, rlist, gpc, glen, gresult>>
    /\ UNCHANGED <<gcaller, gshared>>
    /\ UNCHANGED <<expiries, rlast>>
    /\ UNCHANGED <<hcp, announced, loops, rmissing>>
    /\ UNCHANGED nonCacheVars
    /\ UNCHANGED pcStopVars

\* the id of the row Repository.Create inserts for a policy of the pending
\* writes: the INSERT names no id, the table generates one, which is none of
\* the ids Create has handed out
RowID(id) == id + MaxPolicyIDs

\* syncToPostgres: under the lock take the pending writes and leave an empty
\* list; then Repository.Create for each policy taken, an error of which is
\* logged and the policy passed over
syncToPostgres ==
    /\ cacheKind = "RedisCache"
    /\ pendingWrites # <<>>
    /\ CanLock(readers)
    /\ pendingWrites' = <<>>
    /\ \E fails \in SUBSET (1..Len(pendingWrites)) :
          dbRows' = dbRows \o
                    [k \in 1..(Len(pendingWrites) - Cardinality(fails)) |->
                        RowID(SubAt(pendingWrites, (1..Len(pendingWrites)) \ fails, 1)[k])]
    /\ UNCHANGED <<cacheKind, cached, cachedWhole, readers, nextID, redisSet, redisKeys,
                   rpc, rlist, gpc, glen, gresult, gseen>>
    /\ UNCHANGED <<gcaller, gshared>>
    /\ UNCHANGED <<expiries, rlast>>
    /\ UNCHANGED <<hcp, announced, loops, rmissing>>
    /\ UNCHANGED nonCacheVars
    /\ UNCHANGED pcStopVars

\* GetByID for an id the in-memory list does not hold: the policy read from
\* the key-value store, or else loaded from the table (and set in the
\* key-value store, an error of which is only logged), is appended
GetByID(id) ==
    /\ cacheKind = "RedisCache"
    /\ id \notin Range(cached)
    /\ \E redisErr \in BOOLEAN :
          IF id \in redisKeys /\ ~redisErr
          THEN UNCHANGED <<redisSet, redisKeys>>
          ELSE /\ id \in Range(dbRows)
               /\ \E outcome \in {"ok", "SetErr", "SAddErr"} :
                     /\ redisKeys' = IF outcome = "SetErr" THEN redisKeys
                                     ELSE redisKeys \cup {id}
                     /\ redisSet' = IF outcome = "ok" THEN redisSet \cup {id} ELSE redisSet
    /\ CanLock(readers)
    /\ cached' = Append(cached, id)
    /\ cachedWhole' = FALSE
    /\ gseen' = SeenAfter(Append(cached, id), FALSE)
    /\ UNCHANGED <<cacheKind, readers, dbRows, nextID, pendingWrites, rpc, rlist, gpc,
                   glen, gresult>>
    /\ UNCHANGED <<gcaller, gshared>>
    /\ UNCHANGED <<expiries, rlast>>
    /\ UNCHANGED <<hcp, announced, loops, rmissing>>
    /\ UNCHANGED nonCacheVars
    /\ UNCHANGED pcStopVars

\* a policy key reaches its time to live; the id set has none
RedisExpire(id) ==
    /\ cacheKind = "RedisCache"
    /\ id \in redisKeys
    /\ redisKeys' = redisKeys \ {id}
    /\ UNCHANGED <<cacheKind, cached, cachedWhole, readers, dbRows, nextID, redisSet,
                   pendingWrites, rpc, rlist, gpc, glen, gresult, gseen>>
    /\ UNCHANGED <<gcaller, gshared>>
    /\ expiries < MaxExpiries
    /\ expiries' = expiries + 1
    /\ UNCHANGED rlast
    /\ UNCHANGED <<hcp, announced, loops, rmissing>>
    /\ UNCHANGED nonCacheVars
    /\ UNCHANGED pcStopVars

(***************************************************************************)
(* Initial state and the specifications.                                   *)
(***************************************************************************)
Init ==
    /\ queue = <<>>
    /\ auditRows = [r \in Records |-> 0]
    /\ nextRec = 0
    /\ junkCount = 0
    /\ lastSync = NoSync
    /\ logChannel = <<>>
    /\ stopCh = FALSE
    /\ wpc = [w \in Workers |-> "select"]
    /\ wentry = [w \in Workers |-> 0]
    /\ closePc = "idle"
    /\ saturated = {}
    /\ dequeued = {}
    /\ atStop = [rec |-> 0, buf |-> {}]
    /\ swpc = "none"
    /\ stopChan = FALSE
    /\ mainPc = "running"
    /\ impl = "none"
    /\ content = <<>>
    /\ policies = <<>>
    /\ launched = <<>>
    /\ tpc = <<>>
    /\ tres = <<>>
    /\ resultCh = <<>>
    /\ chClosed = FALSE
    /\ cancelled = FALSE
    /\ parentDone = FALSE
    /\ received = 0
    /\ matches = <<>>
    /\ ret = Idle
    /\ patternCache = {}
    /\ resp = NoResp
    /\ rdpc = "idle"
    /\ rdIn = NoRedact
    /\ rdOut = <<>>
    /\ rdAgain = <<>>
    /\ cacheKind = "none"
    /\ cached = <<>>
    /\ cachedWhole = TRUE
    /\ readers = {}
    /\ dbRows = <<1>>
    /\ nextID = 1
    /\ redisSet = {}
    /\ redisKeys = {}
    /\ pendingWrites = <<>>
    /\ rpc = [p \in Refreshers |-> "idle"]
    /\ rlist = [p \in Refreshers |-> <<>>]
    /\ gpc = [g \in Getters |-> "idle"]
    /\ glen = [g \in Getters |-> 0]
    /\ gresult = [g \in Getters |-> <<>>]
    /\ gseen = [g \in Getters |-> {}]
    /\ gcaller = [g \in Getters |-> <<>>]
    /\ gshared = [g \in Getters |-> FALSE]
    /\ expiries = 0
    /\ rlast = [p \in Refreshers |-> "none"]
    /\ rmissing = [p \in Refreshers |-> {}]
    /\ pcStop = FALSE
    /\ rwDone = FALSE
    /\ lateTick = FALSE
    /\ cpc = [c \in Callers |-> "idle"]
    /\ cpat = [c \in Callers |-> <<>>]
    /\ writes = [pat \in Patterns |-> 0]
    /\ hcp = [req |-> 0, status |-> 0]
    /\ announced = {}
    /\ loops = 0

NextDrain ==
    \/ syncAuditLogsToPostgres
    \/ QueuePushRecord
    \/ QueuePushJunk

SpecDrain == Init /\ [][NextDrain]_vars

NextShutdown ==
    \/ QueuePushRecord
    \/ QueuePushJunk
    \/ SyncWorkerStart
    \/ SyncWorkerTick
    \/ SyncWorkerStopCase
    \/ SyncWorkerFinal
    \/ Stop
    \/ MainCloseStores
    \/ MainExit

SpecShutdown == Init /\ [][NextShutdown]_vars

NextLogger ==
    \/ Log
    \/ \E w \in Workers :
        \/ WorkerReceive(w)
        \/ WorkerStop(w)
        \/ WorkerDrainReceive(w)
        \/ WorkerWrite(w)
        \/ WorkerExit(w)
    \/ Close
    \/ CloseReturn

SpecLogger == Init /\ [][NextLogger]_vars

NextAnalyze ==
    \/ \E s \in Contents, ps \in PolicyLists :
        \/ AnalyzeAllCall(s, ps)
        \/ AnalyzeFirstCall(s, ps)
    \/ \E i \in Tasks :
        \/ AnalyzeAllTask(i)
        \/ AnalyzeFirstTask(i)
        \/ AnalyzeFirstSend(i)
    \/ AnalyzeAllReceive
    \/ AnalyzeFirstClose
    \/ AnalyzeFirstReceive
    \/ AnalyzeFirstReceiveClosed
    \/ AnalyzeDone
    \/ ParentCancel

SpecAnalyze == Init /\ [][NextAnalyze]_vars

\* the steps of the goroutines of a call of Analyze: the matchers, the
\* closer and the receiving loop
AnalyzeStep ==
    \/ \E i \in Tasks :
        \/ AnalyzeAllTask(i)
        \/ AnalyzeFirstTask(i)
        \/ AnalyzeFirstSend(i)
    \/ AnalyzeAllReceive
    \/ AnalyzeFirstClose
    \/ AnalyzeFirstReceive
    \/ AnalyzeFirstReceiveClosed

\* calls of Analyze with the lists a request handler passes
NextAnalyzeFair ==
    \/ \E s \in Contents, ps \in Snapshots :
        \/ AnalyzeAllCall(s, ps)
        \/ AnalyzeFirstCall(s, ps)
    \/ AnalyzeStep
    \/ AnalyzeDone
    \/ ParentCancel

\* the scheduler runs a goroutine that can take a step
SpecAnalyzeFair == Init /\ [][NextAnalyzeFair]_vars /\ WF_vars(AnalyzeStep)

NextHandler ==
    \/ \E s \in Contents, ps \in Snapshots :
        \/ AnalyzeAllCall(s, ps)
        \/ AnalyzeFirstCall(s, ps)
    \/ \E i \in Tasks :
        \/ AnalyzeAllTask(i)
        \/ AnalyzeFirstTask(i)
        \/ AnalyzeFirstSend(i)
    \/ AnalyzeAllReceive
    \/ AnalyzeFirstClose
    \/ AnalyzeFirstReceive
    \/ AnalyzeFirstReceiveClosed
    \/ ParentCancel
    \/ HandleAnalyzeRespond
    \/ HandleAnalyzeReturn

SpecHandler == Init /\ [][NextHandler]_vars

NextRedact ==
    \/ \E c \in RedactContents, ps \in RedactLists, qs \in RedactLists :
          \E ms \in MatchLists(qs) : RedactContentCall(c, ms, ps)
    \/ RedactContentAgain
    \/ RedactContentDone

SpecRedact == Init /\ [][NextRedact]_vars

NextRequest ==
    \/ PolicyCacheStart
    \/ \E k \in CreateRequests : HandleCreatePolicy(k)
    \/ \E p \in Refreshers :
        \/ refresh_List(p)
        \/ refresh_Swap(p)
    \/ \E g \in Getters :
        \/ Get_RLock(g)
        \/ Get_Copy(g)
        \/ Get_RUnlock(g)
        \/ \E s \in Contents : HandleAnalyzeEvaluate(s, g)
    \/ \E i \in Tasks : AnalyzeAllTask(i)
    \/ AnalyzeAllReceive
    \/ HandleAnalyzeRespond

SpecRequest == Init /\ [][NextRequest]_vars

NextCache ==
    \/ PolicyCacheStart
    \/ \E k \in CreateRequests : HandleCreatePolicy(k)
    \/ \E p \in Refreshers :
        \/ refresh_List(p)
        \/ refresh_Swap(p)
        \/ refreshFromRedis_Read(p)
        \/ refreshFromRedis_Swap(p)
    \/ \E g \in Getters :
        \/ Get_RLock(g)
        \/ Get_Copy(g)
        \/ Get_RUnlock(g)
        \/ \E kind \in Mutations : CallerMutates(g, kind)
    \/ RedisCacheStart
    \/ Invalidate
    \/ loadFromPostgres
    \/ Create
    \/ \E id \in PolicyIDs :
        \/ GetByID(id)
        \/ RedisExpire(id)

SpecCache == Init /\ [][NextCache]_vars

NextCompile ==
    \E c \in Callers :
        \/ \E pattern \in Patterns : getCompiledPattern_Read(c, pattern)
        \/ getCompiledPattern_Store(c)

SpecCompile == Init /\ [][NextCompile]_vars

\* the three-tier cache with its sync worker's syncToPostgres
NextSync ==
    \/ RedisCacheStart
    \/ Create
    \/ syncToPostgres
    \/ Invalidate
    \/ loadFromPostgres
    \/ \E p \in Refreshers :
        \/ refreshFromRedis_Read(p)
        \/ refreshFromRedis_Swap(p)
    \/ \E id \in PolicyIDs : RedisExpire(id)

SpecSync == Init /\ [][NextSync]_vars

NextPolicyCache ==
    \/ PolicyCacheStart
    \/ PolicyCacheStop
    \/ refreshWorker_StopCase
    \/ \E k \in CreateRequests : HandleCreatePolicy(k)
    \/ \E p \in Refreshers :
        \/ refresh_List(p)
        \/ refresh_Swap(p)
    \/ \E g \in Getters :
        \/ Get_RLock(g)
        \/ Get_Copy(g)
        \/ Get_RUnlock(g)
        \/ \E kind \in Mutations : CallerMutates(g, kind)

SpecPolicyCache == Init /\ [][NextPolicyCache]_vars

(***************************************************************************)
(* Claims about the drain cycle.                                           *)
(***************************************************************************)
InStore(rec) == auditRows[rec] > 0

\* C1: when a drain cycle returns, every parseable record it popped is in the
\* durable store or back on the shared queue.
C1_PoppedDeliveredOrRequeued ==
    lastSync.ran =>
        \A i \in 1..Len(lastSync.logs) :
            LET u == Unmarshal(lastSync.logs[i])
            IN  ~u.err => InStore(u.entry) \/ lastSync.logs[i] \in Range(queue)

\* the payloads of the records whose own per-record insert failed, in the
\* order of the fallback loop
RECURSIVE ParsedIdx(_, _)
ParsedIdx(logs, i) ==
    IF i > Len(logs) THEN <<>>
    ELSE (IF Unmarshal(logs[i]).err THEN <<>> ELSE <<i>>) \o ParsedIdx(logs, i + 1)

PayloadsOfFailed ==
    LET idx == ParsedIdx(lastSync.logs, 1)
    IN  SubAt([k \in 1..Len(idx) |-> lastSync.logs[idx[k]]], lastSync.fails, 1)

\* C2: after a cycle whose bulk insert failed (and whose re-pushes all
\* succeeded), the payloads pushed back are exactly the payloads of the
\* records whose per-record insert failed.
C2_RequeuedAreTheFailed ==
    (lastSync.ran /\ lastSync.bulkErr /\ lastSync.pushFails = {}) =>
        lastSync.pushed = PayloadsOfFailed

(***************************************************************************)
(* Claims about the audit Logger.                                          *)
(***************************************************************************)
OnQueue(rec) == Marshal(rec) \in Range(queue)

\* C3: every record whose Log call found the buffer full is, once Log has
\* returned, in the durable store or on the shared queue.
C3_SaturatedNeverDropped ==
    \A r \in saturated : InStore(r) \/ OnQueue(r)

\* C4: every record a worker took from the buffer and is done with was pushed
\* onto the shared queue or, failing that, written to the durable store.
C4_DequeuedPushedOrStored ==
    \A r \in dequeued : OnQueue(r) \/ InStore(r)

(***************************************************************************)
(* Claims about Analyze.                                                   *)
(***************************************************************************)
\* what the check of one policy against the call's content gives
Matches(p) == checkPolicyMatch({}, p, content).matched

Errors(p) == checkPolicyMatch({}, p, content).err # ""

Passed == 1..Len(policies)

\* the call was given more than one policy, all enabled, all matching
SeveralAllMatch ==
    /\ ret.state = "returned"
    /\ Len(policies) > 1
    /\ \A i \in Passed : policies[i].Enabled /\ Matches(policies[i])

MatchingEnabled == {i \in Passed : policies[i].Enabled /\ Matches(policies[i])}

\* C6: when no check of an enabled policy errors, the collecting Analyze
\* returns one match for each enabled policy whose pattern matches the
\* content: as many matches as there are matching enabled policies.
C6_OneMatchPerMatchingPolicy ==
    (/\ impl = "all"
     /\ ret.state = "returned"
     /\ \A i \in Passed : policies[i].Enabled => ~Errors(policies[i])) =>
        /\ ret.err = NoErr
        /\ Len(ret.matches) = Cardinality(MatchingEnabled)
        /\ {ret.matches[k].PolicyID : k \in 1..Len(ret.matches)} =
               {policies[i].ID : i \in MatchingEnabled}

C6_Witness ==
    /\ impl = "all"
    /\ ret.state = "returned"
    /\ ret.err = NoErr
    /\ Cardinality(MatchingEnabled) = 3
    /\ Len(ret.matches) = 3

\* C7: when the check of at least one enabled policy errors, Analyze returns
\* an error and no match list, whatever the other policies do.
C7_ErrorFailsTheEvaluation ==
    (/\ ret.state = "returned"
     /\ \E i \in Passed : policies[i].Enabled /\ Errors(policies[i])) =>
        ret.err # NoErr /\ ret.matches = <<>>

\* C8: a policy passed with enabled = false is in no match, is named by no
\* error, and leaves the verdict what the enabled policies alone make it.
C8_DisabledNeverCounts ==
    ret.state = "returned" =>
        /\ \A k \in 1..Len(ret.matches) :
               \A i \in Passed :
                  policies[i].ID = ret.matches[k].PolicyID => policies[i].Enabled
        /\ \A i \in Passed : policies[i].Name = ret.err.policy => policies[i].Enabled
        /\ Verdict(ret.matches, policies) = "block" =>
               \E i \in MatchingEnabled : policies[i].Action = "block"

(***************************************************************************)
(* Claims about the policy caches.                                         *)
(***************************************************************************)
\* C9: the list a Get returns is the whole list the cache held at one moment
\* of the call, and for PolicyCache that list is one a refresh installed.
C9_GetReturnsOneSnapshot ==
    \A g \in Getters :
        gpc[g] = "returned" =>
            \E s \in gseen[g] :
                /\ gresult[g] = s.list
                /\ cacheKind = "PolicyCache" => s.whole

C9_Witness ==
    \E g \in Getters :
        /\ gpc[g] = "returned"
        /\ Len(gresult[g]) > 0
        /\ gresult[g] # cached
        /\ \E p \in Refreshers : rpc[p] = "listed"

\* C11: no step by which a caller changes, reorders or truncates the
\* sequence a Get returned to it changes the cache's slice, so a later Get
\* (with no refresh in between) returns the list the earlier one did.
C11_CallerChangeLeavesCache ==
    [][(\E g \in Getters : gpc[g] = "returned" /\ gpc'[g] = "returned"
                              /\ gcaller'[g] # gcaller[g])
         => cached' = cached]_vars

C11_Witness ==
    \E g \in Getters :
        /\ gpc[g] = "returned"
        /\ gcaller[g] # gresult[g]
        /\ gresult[g] = cached
        /\ Len(cached) > 1

\* C12: a refresh of PolicyCache whose list fails leaves the snapshot as it
\* was and leaves its refresher where the next tick (or the next Invalidate)
\* starts from.
C12_FailedRefreshKeepsSnapshot ==
    [][\A p \in Refreshers :
          (rlast'[p] = "failed" /\ rlast[p] # "failed") =>
              cached' = cached /\ rpc'[p] = "idle"]_vars

C12_Witness ==
    /\ rlast["worker"] = "failed"
    /\ rpc["worker"] = "listed"
    /\ rlist["worker"] # cached
    /\ Len(cached) > 0

\* C13: no two refreshes of the policy cache are between their list and
\* their swap at once.
C13_RefreshesNeverOverlap ==
    \A p, q \in Refreshers :
        (rpc[p] = "listed" /\ rpc[q] = "listed") => p = q

\* C14: no row of the policies table, and so no policy of the snapshot, has
\* a regex pattern that does not compile: a create request with one is
\* answered with an error.
C14_NoUncompilableRegexStored ==
    /\ \A i \in 1..Len(dbRows) :
          PolicyPool[dbRows[i]].PatternType = "regex" =>
              Compile(PolicyPool[dbRows[i]].PatternValue).err = ""
    /\ (hcp.req # 0 /\ PolicyPool[hcp.req].PatternType = "regex"
           /\ Compile(PolicyPool[hcp.req].PatternValue).err # "") => hcp.status = 400

\* C15: a Get that copies the snapshot after HandleCreatePolicy answered
\* "created" following an Invalidate that succeeded returns a list that
\* holds the created policy, whatever the periodic refresh does in between.
C15_CreatedPolicyIsServed ==
    [][\A g \in Getters :
          (gpc[g] = "locked" /\ gpc'[g] = "copied") =>
              announced \subseteq Range(gresult'[g])]_vars

\* C16: every request HandleAnalyze has answered after its evaluation,
\* the ones answered with an error among them, has submitted one audit
\* record.
C16_EveryEvaluationIsAudited == resp.status # 0 => resp.submitted = 1

C18_RedactIsIdempotent == rdpc = "twice" => rdAgain = rdOut

C20_StopDrainsTheBuffer ==
    /\ \A r \in atStop.buf :
          \/ r \in Range(logChannel)
          \/ \E w \in Workers : wentry[w] = r /\ wpc[w] # "stopped"
          \/ r \in dequeued
    /\ (\E w \in Workers : wpc[w] = "stopped") => atStop.buf \cap Range(logChannel) = {}
    /\ closePc = "returned" =>
          /\ \A w \in Workers : wpc[w] = "stopped"
          /\ atStop.buf \subseteq dequeued
          /\ nextRec = atStop.rec => logChannel = <<>>

\* Close has returned, the buffer was full when stopCh was closed, and no
\* record was logged since
C20_Witness ==
    /\ closePc = "returned"
    /\ Cardinality(atStop.buf) = BufferSize
    /\ nextRec = atStop.rec
    /\ atStop.buf \subseteq dequeued

\* C21: main closes the store connections and exits only when the sync
\* worker has done its final drain cycle and returned.
C21_FinalDrainBeforeExit ==
    (swpc # "none" /\ mainPc \in {"closed", "exited"}) => swpc = "stopped"

\* a queue of well-formed records only
WellFormed(q) == \A i \in 1..Len(q) : ~Unmarshal(q[i]).err

\* the records of a sequence of payloads
RecordsOf(logs) == {Unmarshal(logs[i]).entry : i \in 1..Len(logs)}

C23_NoStoreOperationWhileRoom ==
    [][Len(logChannel) < BufferSize =>
          /\ auditRows' = auditRows
          /\ dbRows' = dbRows
          /\ saturated' = saturated
          /\ (resp.status = 0 /\ resp'.status = 200) =>
                logChannel' = Append(logChannel, nextRec')]_vars

\* a request was answered 200, its record is on the buffer and the store
\* was never written
C23_Witness ==
    /\ resp.status = 200
    /\ resp.submitted = 1
    /\ nextRec \in Range(logChannel)
    /\ Len(ret.matches) > 0
    /\ saturated = {}
    /\ \A r \in Records : auditRows[r] = 0

KnownKinds == {"regex", "keyword", "profanity"}

\* C24: when an enabled policy of the call has a pattern kind that is not a
\* known kind, Analyze returns no match list and an error that names an
\* unknown kind of the call.
C24_UnknownKindIsAnError ==
    (/\ ret.state = "returned"
     /\ \E i \in Passed : policies[i].Enabled /\ policies[i].PatternType \notin KnownKinds) =>
        /\ ret.matches = <<>>
        /\ ret.err.cause = "unknown pattern type"
        /\ \E i \in Passed :
              /\ policies[i].Enabled
              /\ policies[i].PatternType \notin KnownKinds
              /\ ret.err.detail = policies[i].PatternType

\* C25: Analyze of one enabled policy of kind model, whose client call
\* does not error, returns no error, and returns the policy's match exactly
\* when the client's verdict is unsafe.
C25_ModelPolicyFollowsTheClient ==
    (/\ ret.state = "returned"
     /\ ~ret.ctxDone
     /\ Len(policies) = 1
     /\ policies[1].Enabled
     /\ policies[1].PatternType = "model") =>
        LET ev == Evaluate(policies[1].PatternValue, content)
        IN  ev.err = "" =>
               /\ ret.err = NoErr
               /\ ev.Triggered <=>
                     (Len(ret.matches) = 1 /\ ret.matches[1].PolicyID = policies[1].ID)

\* C26: Start's initial load is done when Start returns.  When it succeeds
\* the snapshot is the list of the table and one refresh loop runs, and a Get
\* that returns before any refresh has ended returns that snapshot.  When it fails the snapshot stays empty and no refresh loop is
\* launched: no refresh ever runs.  At most one refresh loop runs.
C26_StartLoadsBeforeItReturns ==
    /\ [][(cacheKind = "none" /\ cacheKind' \in {"PolicyCache", "failed"}) =>
             IF cacheKind' = "PolicyCache"
             THEN cached' = List(dbRows) /\ loops' = 1
             ELSE cached' = <<>> /\ loops' = 0]_vars
    /\ [](cacheKind = "failed" =>
             /\ cached = <<>>
             /\ loops = 0
             /\ \A p \in Refreshers : rpc[p] = "idle" /\ rlast[p] = "none")
    /\ [](loops <= 1)
    /\ [](\A g \in Getters :
             (/\ cacheKind = "PolicyCache"
              /\ gpc[g] = "returned"
              /\ \A p \in Refreshers : rlast[p] = "none") => gresult[g] = cached)

\* Start has succeeded, its loop runs, and a Get has returned the loaded list
\* before any refresh
C26_Witness ==
    /\ cacheKind = "PolicyCache"
    /\ loops = 1
    /\ \A p \in Refreshers : rlast[p] = "none" /\ rpc[p] = "idle"
    /\ \E g \in Getters : gpc[g] = "returned" /\ gresult[g] = List(dbRows) /\ Len(gresult[g]) > 0

\* C27: the list HandleAnalyze derives the verdict and the redaction from
\* is the list it passed to Analyze, and every match Analyze returned has the
\* ID of a policy of that list, whatever the cache holds by then.
C27_OneSnapshotPerRequest ==
    resp.status = 200 =>
        /\ resp.snapshot = policies
        /\ \A k \in 1..Len(ret.matches) :
              \E i \in 1..Len(resp.snapshot) : resp.snapshot[i].ID = ret.matches[k].PolicyID

\* a request was answered with a match of a policy that a refresh had by
\* then taken out of the cache or put behind a newer one
C27_Witness ==
    /\ resp.status = 200
    /\ Len(ret.matches) > 0
    /\ PoliciesOf(cached) # resp.snapshot
    /\ \E p \in Refreshers : rlast[p] = "ok"

\* C28: a refreshFromRedis that could not read one or more of the policies of
\* the id set leaves the in-memory snapshot as it was: the step that ends such
\* a refresh does not change the list
C28_IncompleteRefreshKeepsTheSnapshot ==
    [][\A p \in Refreshers :
          (cacheKind = "RedisCache" /\ rpc[p] = "listed" /\ rpc'[p] = "idle"
           /\ rmissing[p] # {}) => cached' = cached]_vars

\* C29: an entry a drain cycle popped that does not parse as an audit record
\* is dropped for good, whether the bulk insert succeeded or failed: it is not
\* among the entries handed to the durable store and not among the payloads
\* the cycle pushed back onto the shared queue
C29_JunkIsDroppedForGood ==
    lastSync.ran =>
        /\ \A k \in 1..Len(lastSync.entries) : lastSync.entries[k] \in Records
        /\ \A k \in 1..Len(lastSync.pushed) : lastSync.pushed[k] # JunkPayload

\* C30: the bulk insert is all-or-nothing: in a drain cycle whose bulk insert
\* returned an error, the only rows the durable store gains are those of the
\* per-record fallback, one for each entry whose own insert succeeded, so no
\* record of the batch gains two rows in that cycle
C30_FailedBulkLeavesNoRows ==
    [][(/\ nextRec' = nextRec
        /\ junkCount' = junkCount
        /\ <<queue, auditRows, lastSync>>' # <<queue, auditRows, lastSync>>
        /\ lastSync'.ran
        /\ lastSync'.bulkErr) =>
            LET entries == lastSync'.entries
                stored  == {entries[k] : k \in (1..Len(entries)) \ lastSync'.fails}
            IN  \A r \in Records :
                   /\ auditRows'[r] = auditRows[r] + (IF r \in stored THEN 1 ELSE 0)
                   /\ auditRows'[r] <= auditRows[r] + 1]_vars

\* a cycle's bulk insert failed, and of its two entries the fallback stored
\* one, which has one row, and failed on the other
C30_Witness ==
    /\ lastSync.ran
    /\ lastSync.bulkErr
    /\ Len(lastSync.entries) = 2
    /\ Cardinality(lastSync.fails) = 1
    /\ \E k \in (1..2) \ lastSync.fails : auditRows[lastSync.entries[k]] = 1

\* C31: after PolicyCache.Stop has been called no later tick replaces the
\* snapshot: a refresh the worker began on a tick it took after Stop never
\* changes the list (a refresh in flight when Stop is called may)
C31_NoTickRefreshAfterStop ==
    [][(lateTick /\ rpc["worker"] = "listed" /\ rpc'["worker"] = "idle")
          => cached' = cached]_vars

\* C32: RedactContent changes the content only through a match whose policy
\* is in the policy list and has the action redact: when no match of the call
\* refers to such a policy (empty match list, policy missing from the list,
\* action block or log), what it returns is the content it was given
RedactingMatches(ms, ps) ==
    {k \in 1..Len(ms) :
        \E i \in 1..Len(ps) : ps[i].ID = ms[k].PolicyID /\ ps[i].Action = "redact"}

C32_OnlyRedactPoliciesChangeContent ==
    (rdpc # "idle" /\ RedactingMatches(rdIn.matches, rdIn.policies) = {}) =>
        rdOut = rdIn.content

\* a call with two matches, one of a policy that the list lacks and one of a
\* policy of the list with the action block whose keyword is in the content
C32_Witness ==
    /\ rdpc = "once"
    /\ Len(rdIn.matches) = 2
    /\ RedactingMatches(rdIn.matches, rdIn.policies) = {}
    /\ \E k \in 1..2 : \A i \in 1..Len(rdIn.policies) :
          rdIn.policies[i].ID # rdIn.matches[k].PolicyID
    /\ \E k \in 1..2 : \E i \in 1..Len(rdIn.policies) :
          /\ rdIn.policies[i].ID = rdIn.matches[k].PolicyID
          /\ rdIn.policies[i].Action = "block"
          /\ ReplaceAllString(rdIn.content, rdIn.policies[i].PatternValue, TRUE, Redacted)
                # rdIn.content

\* C33: a request whose evaluation failed is answered 504 exactly when its
\* context is past its deadline at the handler's check and 500 in every other
\* case, whatever the cause of the failure; it is never answered 200
C33_FailedEvaluationIs504Or500 ==
    (resp.status # 0 /\ ret.err # NoErr) =>
        /\ resp.status \in {500, 504}
        /\ resp.status = 504 <=> resp.ctxErr = "DeadlineExceeded"

\* an evaluation failed on a pattern that does not compile while the
\* request's deadline had passed, and was answered 504
C33_Witness ==
    /\ resp.status = 504
    /\ ret.err.cause = "invalid regex pattern"
    /\ resp.ctxErr = "DeadlineExceeded"

\* C34: every call of Analyze returns and every goroutine it started ends
\* (no matcher stays blocked on the result channel or on the context, and the
\* closer ends), under every interleaving; a call none of whose policies
\* matches or fails returns the empty list and no error
NothingToReport ==
    \A i \in Tasks :
        LET chk == checkPolicyMatch(patternCache, launched[i], content)
        IN  ~chk.matched /\ chk.err = ""

C34_AnalyzeReturnsAndLeavesNoTask ==
    /\ [](ret.state = "returned" /\ NothingToReport
             => ret.matches = <<>> /\ ret.err = NoErr)
    /\ (ret.state = "running") ~> Quiescent

\* a call with two or more policies has returned on the first match or error
\* it received and all its goroutines have ended, leaving on the channel a
\* result that was sent and never received
C34_Witness ==
    /\ Quiescent
    /\ Len(launched) >= 2
    /\ ret.err # NoErr \/ (impl = "first" /\ Len(ret.matches) = 1)
    /\ resultCh # <<>>

\* C35: an evaluation whose context was done before any matcher ran its check
\* does not return success with an empty match list for a content that an
\* enabled policy of the list matches: it returns a match or an error
C35_DoneContextNeverPassesAMatch ==
    (/\ ret.state = "returned"
     /\ ret.ctxDone
     /\ \A i \in Tasks : tres[i] = NoResult
     /\ \E i \in 1..Len(policies) :
           /\ policies[i].Enabled
           /\ checkPolicyMatch(patternCache, policies[i], content).matched)
        => (ret.err # NoErr \/ ret.matches # <<>>)

\* C36: once Close has returned the in-process buffer holds no record that a
\* Log call enqueued, whether the call ran before, during or after Close
C36_NothingLeftInTheBufferAfterClose ==
    closePc = "returned" => logChannel = <<>>

\* C37: a policy created through RedisCache.Create reaches the durable store
\* under the id Create returned: a pending write leaves the pending list only
\* when a row with its id is in the table, so a write whose sync failed stays
\* pending for a later sync
C37_PendingWriteStaysUntilStoredUnderItsID ==
    [][\A k \in 1..Len(pendingWrites) :
          \/ pendingWrites[k] \in Range(pendingWrites')
          \/ pendingWrites[k] \in Range(dbRows')]_vars

\* C38: when HandleCreatePolicy has inserted the row and its Invalidate
\* fails, the request is still answered "created" for that policy and the
\* failing Invalidate leaves the snapshot as it was; the created policy enters
\* the snapshot only by the swap of a refresh that succeeds
C38_FailedInvalidateStillCreated ==
    /\ [][(rpc["invalidate"] = "called" /\ rpc'["invalidate"] = "idle") =>
             /\ cached' = cached
             /\ hcp' = [req |-> hcp.req, status |-> 201]
             /\ hcp.req \in Range(dbRows)]_vars
    /\ [][(hcp.req # 0 /\ hcp.req \notin Range(cached) /\ hcp.req \in Range(cached')) =>
             \E p \in Refreshers :
                /\ rpc[p] = "listed"
                /\ rpc'[p] = "idle"
                /\ rlast'[p] = "ok"
                /\ cached' = rlist[p]]_vars

\* a create request was answered "created" after its Invalidate failed: its
\* row is in the table and the snapshot does not hold it
C38_Witness ==
    /\ hcp.status = 201
    /\ rlast["invalidate"] = "failed"
    /\ rpc["invalidate"] = "idle"
    /\ hcp.req \in Range(dbRows)
    /\ hcp.req \notin Range(cached)
    /\ hcp.req \notin announced

\* C39: the compile cache is written at most once for each pattern over the
\* life of the Analyzer, whatever the interleaving of the callers, and holds
\* no pattern that does not compile
C39_OneCacheWritePerPattern ==
    /\ \A pat \in Patterns : writes[pat] <= 1
    /\ \A pat \in patternCache : Compile(pat).err = ""

\* C10: every step that changes the in-memory list installs the list a load
\* has just produced.
C10_ChangesOnlyBySwap ==
    [][cached' # cached =>
          \/ cacheKind = "none"
          \/ \E p \in Refreshers : rpc[p] = "listed" /\ cached' = rlist[p]]_vars

====
